---- MODULE Spec2Model ----
(***************************************************************************)
(* A model of the SCorePilot harmony checker: the HarmonyAnalyzer object   *)
(* (src/harmony_checker/analyzer.py), its report helpers                   *)
(* (src/harmony_checker/utils.py, src/harmony_checker.py) and the upload   *)
(* handler of the web layer (src/app.py).                                  *)
(*                                                                         *)
(* A pitch is a record [ps, dn]: ps is the MIDI number (music21 pitch.ps / *)
(* pitch.midi), dn the diatonic note number (music21 diatonicNoteNum,      *)
(* C4 = 29), so that the spelling, and with it the interval names and the  *)
(* pitch names the code compares, is part of the model.  An event of a     *)
(* part is a record [kind, ps, dn, t, d]: kind "note" is a music21 Note,   *)
(* kind "chord" a music21 Chord object in the part (it has no .pitch       *)
(* attribute); t is the onset and d the duration in ticks.                 *)
(***************************************************************************)
EXTENDS Integers, Sequences, FiniteSets, TLC

VARIABLES
    score,      \* HarmonyAnalyzer.score: NoScore or [parts, ...]
    key,        \* HarmonyAnalyzer.key: NoKey or [tonic, mode]
    errors,     \* HarmonyAnalyzer.errors: sequence of HarmonyError records
    op,         \* the last operation that was called
    outcome,    \* how it ended: "ok", "raised"
    ret,        \* the value it returned (analyze: the finding list)
    ran,        \* analyze: the analyzers that executed, in order
    failed,     \* analyze: the analyzers in which an exception was caught
    prior,      \* the operation on the analyzer before it: [op, outcome,
                \* findings], findings being len(self.errors) at the call
    report,     \* the last report that was built
    batch,      \* index(): the files of the last upload request
    results,    \* index(): analysis_results of the last upload request
    session,    \* flask session['last_analysis']
    uploads,    \* the files present in the upload folder
    manager     \* the SessionManager and the threads that call it

vars == <<score, key, errors, op, outcome, ret, ran, failed, prior, report,
          batch, results, session, uploads, manager>>

analyzerVars == <<score, key, errors, ret, ran, failed>>
webVars == <<batch, results, session, uploads, manager>>

(* the threads that call the SessionManager, and its own cleanup thread *)
Users == {"u1", "u2"}
CleanupThread == "cleanup"
Threads == Users \cup {CleanupThread}

Unlocked == "unlocked"

(* SessionManager(): sessions is the OrderedDict as the sequence of its    *)
(* items in insertion order; lock is the holder of self.lock; pc is what   *)
(* each thread executes, call and value what it was called with and what   *)
(* it returned last; now is datetime.now() and ids the number of uuids     *)
(* generated so far                                                        *)
NewManager ==
    [sessions |-> <<>>, lock |-> Unlocked,
     pc |-> [t \in Threads |-> "idle"],
     call |-> [t \in Threads |-> <<>>],
     returned |-> <<>>,
     now |-> 0, ids |-> 0]

----------------------------------------------------------------------------
(* Bounds of the model *)

MaxLen == 3

(* Units of musical time *)
TicksPerQuarter == 2
QuartersPerMeasure == 2
TicksPerMeasure == TicksPerQuarter * QuartersPerMeasure

(* self.score = None, self.key = None, and the None of an absent voice *)
NoScore == [loaded |-> FALSE, parts |-> <<>>]
NoKey == [tonic |-> <<-1, -1>>, mode |-> "none"]
None == 0

----------------------------------------------------------------------------
(* Pitch and interval calculus (music21 pitch.Pitch, interval.Interval) *)

Abs(x) == IF x < 0 THEN -x ELSE x

Sign(x) == IF x < 0 THEN -1 ELSE IF x > 0 THEN 1 ELSE 0

(* pitch class of the natural note on each diatonic step C D E F G A B *)
NaturalPc == <<0, 2, 4, 5, 7, 9, 11>>

Step(p) == (p.dn - 1) % 7

(* the natural (white key) pitch with diatonic note number dn *)
Natural(dn) ==
    [ps |-> 12 * (((dn - 1) \div 7) + 1) + NaturalPc[((dn - 1) % 7) + 1],
     dn |-> dn]

(* pitch.name: the step and the accidental, here <<step, pitch class>> *)
Name(p) == <<Step(p), p.ps % 12>>

NameC == <<0, 0>>
NameF == <<3, 5>>
NameG == <<4, 7>>

(* interval.Interval(noteStart=a, noteEnd=b).semitones *)
Semitones(a, b) == b.ps - a.ps

(* interval.Interval(noteStart=a, noteEnd=b).simpleName as the pair        *)
(* <<generic number, semitones within that generic size>>.  The generic    *)
(* number of a simple name is 1..7: an octave and its compounds reduce to  *)
(* the unison, so the simple name of a perfect octave is "P1" = <<1, 0>>   *)
(* (it is semiSimpleName that keeps "P8").  "P5" is <<5, 7>>; the name     *)
(* "P8" = <<8, 12>> is the name of no simple interval.                     *)
SimpleName(a, b) ==
    LET dir == IF b.dn # a.dn THEN Sign(b.dn - a.dn)
               ELSE IF b.ps < a.ps THEN -1 ELSE 1
        g   == Abs(b.dn - a.dn)
        s   == dir * (b.ps - a.ps)
        oct == g \div 7
    IN  <<(g - 7 * oct) + 1, s - 12 * oct>>

(* interval.Interval(noteStart=a, noteEnd=b).semiSimpleName: as simpleName *)
(* but with octaves and their compounds kept as 8                          *)
SemiSimpleName(a, b) ==
    LET n == SimpleName(a, b)
    IN  IF n[1] = 1 /\ Abs(b.dn - a.dn) >= 7 THEN <<8, n[2] + 12>> ELSE n

P1 == <<1, 0>>
P5 == <<5, 7>>
P8 == <<8, 12>>
M7 == <<7, 11>>
d5 == <<5, 6>>
A4 == <<4, 6>>

----------------------------------------------------------------------------
(* Events of a part and findings *)

RECURSIVE Concat(_)
Concat(ss) == IF ss = <<>> THEN <<>> ELSE Head(ss) \o Concat(Tail(ss))

(* element.measureNumber *)
MeasureNumber(e) == (e.t \div TicksPerMeasure) + 1

(* element.offset of an element of a measure: relative to that measure *)
OffsetInMeasure(e) == e.t % TicksPerMeasure

(* note.pitch: an AttributeError on a Chord object *)
HasPitch(e) == e.kind = "note"

Pitch(e) == [ps |-> e.ps, dn |-> e.dn]

HarmonyError(type, measure, description, severity, voice1, voice2) ==
    [type |-> type, measure |-> measure, description |-> description,
     severity |-> severity, voice1 |-> voice1, voice2 |-> voice2]

(* bool(stream): a stream is true when it holds elements *)
Truthy(s) == s.loaded /\ s.parts # <<>>

(* What one try block leaves behind: the findings it appended before it    *)
(* ended, and whether it ended in its except clause.                       *)
Done(errs) == [errs |-> errs, exc |-> FALSE]
Caught(errs) == [errs |-> errs, exc |-> TRUE]

(* without the handlers: what is raised inside a check reaches analyze() *)
Unguarded(r) == [errs |-> r.errs, exc |-> r.exc, raised |-> r.exc]

(* a handler that records what it caught as a finding *)
GuardedReporting(r) ==
    [errs |-> IF r.exc
              THEN r.errs \o <<[type |-> "Analysis Error", measure |-> 0,
                                description |-> "Error in check",
                                severity |-> "low", voice1 |-> 0, voice2 |-> 0]>>
              ELSE r.errs,
     exc |-> r.exc, raised |-> FALSE]

(* The outer "try: ... except Exception as e: logger.error(...)" of every  *)
(* check_* method: whatever was raised inside ends there, nothing escapes  *)
(* to analyze().                                                          *)
Guarded(r) == [errs |-> r.errs, exc |-> r.exc, raised |-> FALSE]

(* The result of a loop whose body is the try block body[x], x over xs *)
Loop(xs, body(_)) ==
    LET rs == [n \in 1..Len(xs) |-> body(xs[n])]
    IN  [errs |-> Concat([n \in 1..Len(xs) |-> rs[n].errs]),
         exc  |-> \E n \in 1..Len(xs) : rs[n].exc]

(* for part1_idx in range(len(parts) - 1):                                 *)
(*     for part2_idx in range(part1_idx + 1, len(parts)):                  *)
PartPairs(n) ==
    Concat([i \in 1..(n - 1) |-> [jj \in 1..(n - i) |-> <<i, i + jj>>]])

(* range(len(notes) - 1), as the 1-based indices 1..len-1 *)
Range1(n) == [k \in 1..(IF n > 1 THEN n - 1 ELSE 0) |-> k]

----------------------------------------------------------------------------
(* check_parallel_fifths / check_parallel_octaves *)

(* the try block of one index i of one pair of parts *)
ParallelAt(parts, i1, i2, k, name, type, description) ==
    LET notes1 == parts[i1]
        notes2 == parts[i2]
    IN  IF k + 1 > Len(notes2) THEN Caught(<<>>)              \* IndexError
        ELSE IF ~(HasPitch(notes1[k]) /\ HasPitch(notes2[k])
                  /\ HasPitch(notes1[k + 1]) /\ HasPitch(notes2[k + 1]))
        THEN Caught(<<>>)                                     \* no .pitch
        ELSE
        LET curr_interval == SimpleName(Pitch(notes1[k]), Pitch(notes2[k]))
            next_interval == SimpleName(Pitch(notes1[k + 1]),
                                        Pitch(notes2[k + 1]))
            motion1 == notes1[k + 1].ps - notes1[k].ps
            motion2 == notes2[k + 1].ps - notes2[k].ps
        IN  IF curr_interval = name /\ next_interval = name
               /\ motion1 * motion2 > 0
            THEN Done(<<HarmonyError(type, MeasureNumber(notes1[k]),
                                     description, "high", i1, i2)>>)
            ELSE Done(<<>>)

ParallelCheck(s, name, type, description) ==
    IF ~Truthy(s) THEN Done(<<>>)
    ELSE IF Len(s.parts) < 2 THEN Done(<<>>)
    ELSE LET parts == s.parts
             body(pr) == Loop(Range1(Len(parts[pr[1]])),
                              LAMBDA k : ParallelAt(parts, pr[1], pr[2], k,
                                                    name, type, description))
         IN  Loop(PartPairs(Len(parts)), body)

check_parallel_fifths(s) ==
    ParallelCheck(s, P5, "Parallel Fifths", "Parallel fifth movement")

check_parallel_octaves(s) ==
    ParallelCheck(s, P8, "Parallel Octaves", "Parallel octave movement")

----------------------------------------------------------------------------
(* check_voice_leading *)

LargeLeapSize == 12
LeapSize == 4
MaxConsecutiveLeaps == 2

(* consecutive_leaps after the pair (a, b) *)
(* a leap of an octave or more *)
IsOctaveOrMore(interval_size) == interval_size >= LargeLeapSize

(* if interval_size > 12 *)
IsLargeLeap(interval_size) == interval_size > LargeLeapSize

(* consecutive_leaps when a major third counts as a leap *)
LeapsAfterThird(leaps, a, b) ==
    IF Abs(Semitones(a, b)) >= LeapSize THEN leaps + 1 ELSE 0

LeapsAfter(leaps, a, b) ==
    LET interval_size == Abs(Semitones(a, b))
    IN  IF IsLargeLeap(interval_size) THEN leaps + 1
        ELSE IF interval_size > LeapSize THEN leaps + 1
        ELSE 0

(* the try block of index k of part idx, entered with consecutive_leaps =   *)
(* leaps                                                                    *)
VoiceLeadingAt(parts, idx, k, leaps) ==
    LET notes == parts[idx]
    IN  IF ~(HasPitch(notes[k]) /\ HasPitch(notes[k + 1])) THEN Caught(<<>>)
        ELSE
        LET interval_size == Abs(Semitones(Pitch(notes[k]),
                                           Pitch(notes[k + 1])))
            after == LeapsAfter(leaps, Pitch(notes[k]), Pitch(notes[k + 1]))
            large == IF IsLargeLeap(interval_size)
                     THEN <<HarmonyError("Large Leap", MeasureNumber(notes[k]),
                                         "Large melodic leap", "medium",
                                         idx, None)>>
                     ELSE <<>>
            many  == IF after > MaxConsecutiveLeaps
                     THEN <<HarmonyError("Consecutive Leaps",
                                         MeasureNumber(notes[k]),
                                         "Too many consecutive leaps",
                                         "medium", idx, None)>>
                     ELSE <<>>
        IN  IF idx < Len(parts) /\ k <= Len(parts[idx + 1])
            THEN LET lower == parts[idx + 1][k]
                 IN  IF ~HasPitch(lower) THEN Caught(large \o many)
                     ELSE IF notes[k].ps < lower.ps
                     THEN Done(large \o many \o
                               <<HarmonyError("Voice Crossing",
                                              MeasureNumber(notes[k]),
                                              "Voice crosses below",
                                              "medium", idx, idx + 1)>>)
                     ELSE Done(large \o many)
            ELSE Done(large \o many)

(* consecutive_leaps when the try block of index k is left *)
VoiceLeadingLeaps(parts, idx, k, leaps) ==
    LET notes == parts[idx]
    IN  IF ~(HasPitch(notes[k]) /\ HasPitch(notes[k + 1])) THEN leaps
        ELSE LeapsAfter(leaps, Pitch(notes[k]), Pitch(notes[k + 1]))

(* for i in range(len(notes) - 1), from index k on *)
RECURSIVE VoiceLeadingFrom(_, _, _, _)
VoiceLeadingFrom(parts, idx, k, leaps) ==
    IF k + 1 > Len(parts[idx]) THEN Done(<<>>)
    ELSE LET here == VoiceLeadingAt(parts, idx, k, leaps)
             rest == VoiceLeadingFrom(parts, idx, k + 1,
                                      VoiceLeadingLeaps(parts, idx, k, leaps))
         IN  [errs |-> here.errs \o rest.errs, exc |-> here.exc \/ rest.exc]

check_voice_leading(s) ==
    IF ~Truthy(s) THEN Done(<<>>)
    ELSE Loop([idx \in 1..Len(s.parts) |-> idx],
              LAMBDA idx : VoiceLeadingFrom(s.parts, idx, 1, 0))

----------------------------------------------------------------------------
(* Harmonic reduction: score.chordify(), and music21 chord.Chord *)

RECURSIVE SortedSeq(_)
SortedSeq(S) ==
    IF S = {} THEN <<>>
    ELSE LET m == CHOOSE x \in S : \A y \in S : x <= y
         IN  <<m>> \o SortedSeq(S \ {m})

(* the first occurrence of each element of a sequence *)
RECURSIVE Distinct(_, _)
Distinct(seq, seen) ==
    IF seq = <<>> THEN <<>>
    ELSE IF Head(seq) \in seen THEN Distinct(Tail(seq), seen)
    ELSE <<Head(seq)>> \o Distinct(Tail(seq), seen \cup {Head(seq)})

(* the first pitch of each name in a sequence of pitches *)
RECURSIVE DistinctNames(_, _)
DistinctNames(seq, seen) ==
    IF seq = <<>> THEN <<>>
    ELSE IF Name(Head(seq)) \in seen THEN DistinctNames(Tail(seq), seen)
    ELSE <<Head(seq)>>
            \o DistinctNames(Tail(seq), seen \cup {Name(Head(seq))})

AllEvents(parts) ==
    UNION {{parts[i][k] : k \in 1..Len(parts[i])} : i \in 1..Len(parts)}

Sounds(e, tau) == e.t <= tau /\ tau < e.t + e.d

(* the pitches sounding at tau, part by part, redundant pitches removed *)
PitchesAt(parts, tau) ==
    Distinct(Concat([i \in 1..Len(parts) |->
                Concat([k \in 1..Len(parts[i]) |->
                    IF Sounds(parts[i][k], tau)
                    THEN <<Pitch(parts[i][k])>> ELSE <<>>])]), {})

(* chordified.recurse().getElementsByClass('Chord'): one chord at every    *)
(* time at which an event of some part starts or ends and something sounds *)
Chordify(s) ==
    LET parts  == s.parts
        points == SortedSeq({e.t : e \in AllEvents(parts)}
                            \cup {e.t + e.d : e \in AllEvents(parts)})
        sounding == [n \in 1..Len(points) |-> PitchesAt(parts, points[n])]
    IN  Concat([n \in 1..Len(points) |->
            IF sounding[n] = <<>> THEN <<>>
            ELSE <<[pitches |-> sounding[n], t |-> points[n]]>>])

(* chord.bass(): the lowest pitch *)
Bass(c) ==
    LET ps == c.pitches
        n  == CHOOSE i \in 1..Len(ps) :
                 /\ \A j \in 1..Len(ps) : ps[i].ps <= ps[j].ps
                 /\ \A j \in 1..(i - 1) : ps[j].ps > ps[i].ps
    IN  ps[n]

(* chord.getChordStep(chordStep, testRoot=p) is not None *)
HasChordStep(c, chordStep, p) ==
    \E n \in 1..Len(c.pitches) :
        Step(c.pitches[n]) = (Step(p) + chordStep - 1) % 7

(* the weights 1/6 .. 1/11 of the chord steps 3, 5, 7, 2, 4, 6, times 27720 *)
OrderedChordSteps == <<3, 5, 7, 2, 4, 6>>
RootnessWeights == <<4620, 3960, 3465, 3080, 2772, 2520>>

RECURSIVE SumSeq(_)
SumSeq(seq) == IF seq = <<>> THEN 0 ELSE Head(seq) + SumSeq(Tail(seq))

Rootness(c, p) ==
    SumSeq([n \in 1..6 |-> IF HasChordStep(c, OrderedChordSteps[n], p)
                           THEN RootnessWeights[n] ELSE 0])

(* chord.root(): the pitch on which the chord's steps stack in thirds,     *)
(* otherwise the pitch with the most thirds, fifths, ... above it          *)
Root(c) ==
    LET nonDup   == DistinctNames(c.pitches, {})
        stepNums == SortedSeq({Step(nonDup[n]) : n \in 1..Len(nonDup)})
        m        == Len(stepNums)
        ofStep(st) == LET n == CHOOSE i \in 1..Len(nonDup) :
                                  /\ Step(nonDup[i]) = st
                                  /\ \A j \in (i + 1)..Len(nonDup) :
                                        Step(nonDup[j]) # st
                      IN  nonDup[n]
        at(i)    == stepNums[((i - 1) % m) + 1]
        stacked(start) ==
            \A e \in (start + 1)..(start + m - 1) :
                at(e) - at(e - 1) \in {2, -5}
        best == CHOOSE i \in 1..Len(nonDup) :
                   /\ \A j \in 1..Len(nonDup) :
                         Rootness(c, nonDup[j]) <= Rootness(c, nonDup[i])
                   /\ \A j \in 1..(i - 1) :
                         Rootness(c, nonDup[j]) < Rootness(c, nonDup[i])
    IN  IF Len(nonDup) = 1 THEN c.pitches[1]
        ELSE IF Len(nonDup) = 7 THEN Bass(c)
        ELSE IF \E start \in 1..m : stacked(start)
        THEN ofStep(stepNums[CHOOSE start \in 1..m :
                        stacked(start) /\ \A x \in 1..(start - 1) : ~stacked(x)])
        ELSE nonDup[best]

(* chord.inversion(): from the generic interval from the bass up to the    *)
(* root: unison 0, sixth 1, fourth 2, second 3, seventh 4, fifth 5, third 6*)
InversionByStep == <<0, 3, 6, 2, 5, 1, 4>>

Inversion(c) == InversionByStep[((Step(Root(c)) - Step(Bass(c))) % 7) + 1]

----------------------------------------------------------------------------
(* check_chord_progressions *)

(* the try block entered for the n-th reduced chord, n >= 2; prev_root is  *)
(* set from the second chord on, so it is the root of chord n-1 when n >= 3*)
ProgressionAt(chords, n) ==
    LET chord     == chords[n]
        curr_root == Root(chord)
        position  == IF Inversion(chord) # 0
                     THEN <<HarmonyError("Chord Position", MeasureNumber(chord),
                                         "Non-root position chord", "low",
                                         None, None)>>
                     ELSE <<>>
        prev_root == Root(chords[n - 1])
        weak      == IF n >= 3 /\ Name(prev_root) = NameG
                        /\ Name(curr_root) = NameF
                     THEN <<HarmonyError("Weak Progression",
                                         MeasureNumber(chord),
                                         "V-IV progression (retrograde)",
                                         "medium", None, None)>>
                     ELSE <<>>
        motion    == IF n >= 3 /\ SimpleName(prev_root, curr_root) = P5
                     THEN <<HarmonyError("Root Motion", MeasureNumber(chord),
                                         "Parallel fifths in root motion",
                                         "low", None, None)>>
                     ELSE <<>>
    IN  Done(position \o weak \o motion)

check_chord_progressions(s) ==
    IF ~Truthy(s) THEN Done(<<>>)
    ELSE LET chords == Chordify(s)
         IN  Loop([n \in 1..(IF Len(chords) > 1 THEN Len(chords) - 1 ELSE 0)
                      |-> n + 1],
                  LAMBDA n : ProgressionAt(chords, n))

----------------------------------------------------------------------------
(* check_cadences *)

(* not self.key, with the key test left out *)
KeyNeverAbsent(k) == FALSE

(* not self.key *)
KeyAbsent(k) == k = NoKey

check_cadences(s, k) ==
    IF ~Truthy(s) \/ KeyAbsent(k) THEN Done(<<>>)
    ELSE
    LET chords == Chordify(s)
    IN  IF Len(chords) < 2 THEN Done(<<>>)
        ELSE
        LET penultimate      == chords[Len(chords) - 1]
            final            == chords[Len(chords)]
            penultimate_root == Root(penultimate)
            final_root       == Root(final)
        IN  IF Name(penultimate_root) = NameG /\ Name(final_root) = NameC
            THEN IF Inversion(final) # 0
                 THEN Done(<<HarmonyError("Cadence", MeasureNumber(final),
                                "Final chord not in root position", "high",
                                None, None)>>)
                 ELSE Done(<<>>)
            ELSE IF Name(penultimate_root) = NameF /\ Name(final_root) = NameC
            THEN Done(<<HarmonyError("Cadence", MeasureNumber(final),
                                     "Plagal cadence", "medium", None, None)>>)
            ELSE Done(<<HarmonyError("Cadence", MeasureNumber(final),
                                     "Non-standard final cadence", "high",
                                     None, None)>>)

----------------------------------------------------------------------------
(* check_harmonic_rhythm *)

MaxRapidChanges == 3
MaxSameChord == 4

(* the loop from the n-th reduced chord on, n >= 2, entered with the two   *)
(* counters; chord.offset is the offset within the chord's measure         *)
RECURSIVE RhythmFrom(_, _, _, _)
RhythmFrom(chords, n, rapid_changes, same_chord_count) ==
    IF n > Len(chords) THEN <<>>
    ELSE
    LET chord == chords[n]
        prev  == chords[n - 1]
        isRapid == OffsetInMeasure(chord) - OffsetInMeasure(prev)
                       < TicksPerQuarter
        rapid == IF isRapid THEN rapid_changes + 1 ELSE 0
        isSame == prev.pitches = chord.pitches
        same  == IF isSame THEN same_chord_count + 1 ELSE 0
        e1 == IF isRapid /\ rapid > MaxRapidChanges
              THEN <<HarmonyError("Harmonic Rhythm", MeasureNumber(chord),
                                  "Too many rapid chord changes", "low",
                                  None, None)>>
              ELSE <<>>
        e2 == IF isSame /\ same > MaxSameChord
              THEN <<HarmonyError("Harmonic Rhythm", MeasureNumber(chord),
                                  "Static harmony for too long", "low",
                                  None, None)>>
              ELSE <<>>
    IN  e1 \o e2 \o RhythmFrom(chords, n + 1, rapid, same)

check_harmonic_rhythm(s) ==
    IF ~Truthy(s) THEN Done(<<>>)
    ELSE Done(RhythmFrom(Chordify(s), 2, 0, 0))

----------------------------------------------------------------------------
(* check_voice_spacing and check_doubled_leading_tone                      *)
(* Both call part.measures(measure_range) with one argument.  music21's    *)
(* Stream.measures(numberStart, numberEnd, *, ...) has no default for      *)
(* numberEnd, so the call is a TypeError, which the outer handler of the   *)
(* check catches: the check ends there with the findings appended so far,  *)
(* which are none.  The loop over the measures runs len(score.measures(0,  *)
(* None)) times, the number of parts of the score, which is at least 1.    *)

check_voice_spacing(s) ==
    IF ~Truthy(s) THEN Done(<<>>)
    ELSE IF Len(s.parts) - 1 >= 1 THEN Caught(<<>>)
    ELSE Done(<<>>)

check_doubled_leading_tone(s, k) ==
    IF ~Truthy(s) \/ KeyAbsent(k) THEN Done(<<>>)
    ELSE Caught(<<>>)

----------------------------------------------------------------------------
(* check_hidden_fifths_octaves *)

StepSize == 2

HiddenAt(parts, k) ==
    LET soprano == parts[1]
        bass    == parts[Len(parts)]
    IN  IF k + 1 > Len(bass) THEN Caught(<<>>)                \* IndexError
        ELSE IF ~(HasPitch(soprano[k]) /\ HasPitch(bass[k])
                  /\ HasPitch(soprano[k + 1]) /\ HasPitch(bass[k + 1]))
        THEN Caught(<<>>)
        ELSE
        LET next_interval  == SimpleName(Pitch(soprano[k + 1]),
                                         Pitch(bass[k + 1]))
            soprano_motion == soprano[k + 1].ps - soprano[k].ps
            bass_motion    == bass[k + 1].ps - bass[k].ps
        IN  IF soprano_motion * bass_motion > 0
               /\ next_interval \in {P5, P8}
               /\ Abs(soprano_motion) > StepSize
            THEN Done(<<HarmonyError("Hidden Perfect Interval",
                                     MeasureNumber(soprano[k]),
                                     "Hidden perfect interval", "low",
                                     1, Len(parts))>>)
            ELSE Done(<<>>)

check_hidden_fifths_octaves(s) ==
    IF ~Truthy(s) THEN Done(<<>>)
    ELSE Loop(Range1(Len(s.parts[1])), LAMBDA k : HiddenAt(s.parts, k))

----------------------------------------------------------------------------
(* check_voice_ranges *)

(* ranges[voice_types[part_idx]]: Soprano, Alto, Tenor, Bass *)
VoiceRanges == <<<<60, 79>>, <<55, 74>>, <<48, 67>>, <<40, 60>>>>

RangeOf(idx, e) ==
    (IF e.ps < VoiceRanges[idx][1]
     THEN <<HarmonyError("Voice Range", MeasureNumber(e),
                         "below traditional range", "medium", idx, None)>>
     ELSE <<>>)
    \o
    (IF e.ps > VoiceRanges[idx][2]
     THEN <<HarmonyError("Voice Range", MeasureNumber(e),
                         "above traditional range", "medium", idx, None)>>
     ELSE <<>>)

(* The two loops have no try block of their own: the first event without a *)
(* .pitch ends the whole check in its outer handler.                       *)
RECURSIVE RangesFrom(_, _, _)
RangesFrom(parts, idx, k) ==
    IF idx > Len(parts) \/ idx > Len(VoiceRanges) THEN Done(<<>>)
    ELSE IF k > Len(parts[idx]) THEN RangesFrom(parts, idx + 1, 1)
    ELSE IF ~HasPitch(parts[idx][k]) THEN Caught(<<>>)
    ELSE LET rest == RangesFrom(parts, idx, k + 1)
         IN  [errs |-> RangeOf(idx, parts[idx][k]) \o rest.errs,
              exc |-> rest.exc]

check_voice_ranges(s) ==
    IF ~Truthy(s) THEN Done(<<>>) ELSE RangesFrom(s.parts, 1, 1)

----------------------------------------------------------------------------
(* check_melodic_intervals *)

(* music21's interval.Interval has no attribute isAugmented: reading it is *)
(* an AttributeError, caught by the try block of the index.                *)
IntervalHasIsAugmented == FALSE

PerfectSize == <<0, 0, 0, 5, 7, 0, 0, 12>>
MajorSize == <<0, 2, 4, 0, 0, 9, 11, 0>>

(* the quality of a simple interval name is augmented *)
Augmented(name) ==
    IF name[1] \in {1, 4, 5, 8} THEN name[2] = PerfectSize[name[1]] + 1
    ELSE name[2] = MajorSize[name[1]] + 1

MelodicAt(parts, idx, k) ==
    LET notes == parts[idx]
    IN  IF ~(HasPitch(notes[k]) /\ HasPitch(notes[k + 1])) THEN Caught(<<>>)
        ELSE IF ~IntervalHasIsAugmented THEN Caught(<<>>)
        ELSE
        LET name == SimpleName(Pitch(notes[k]), Pitch(notes[k + 1]))
        IN  Done((IF Augmented(name)
                  THEN <<HarmonyError("Melodic Interval",
                                      MeasureNumber(notes[k]),
                                      "Augmented interval", "high",
                                      idx, None)>>
                  ELSE <<>>)
                 \o
                 (IF name \in {M7, d5, A4}
                  THEN <<HarmonyError("Melodic Interval",
                                      MeasureNumber(notes[k]),
                                      "Difficult melodic interval", "medium",
                                      idx, None)>>
                  ELSE <<>>))

check_melodic_intervals(s) ==
    IF ~Truthy(s) THEN Done(<<>>)
    ELSE Loop([idx \in 1..Len(s.parts) |-> idx],
              LAMBDA idx : Loop(Range1(Len(s.parts[idx])),
                                LAMBDA k : MelodicAt(s.parts, idx, k)))

----------------------------------------------------------------------------
(* HarmonyAnalyzer.validate_score and HarmonyAnalyzer.analyze *)

MinVoices == 2

(* validation without the check of the number of voices *)
validate_score_any_voices(s) ==
    IF ~Truthy(s) THEN FALSE
    ELSE \A idx \in 1..Len(s.parts) : s.parts[idx] # <<>>

validate_score(s) ==
    IF ~Truthy(s) THEN FALSE
    ELSE IF s.parts = <<>> THEN FALSE
    ELSE IF Len(s.parts) < MinVoices THEN FALSE
    ELSE \A idx \in 1..Len(s.parts) : s.parts[idx] # <<>>

(* the calls of analyze(), in its order *)
Analyzers ==
    <<"check_parallel_fifths", "check_parallel_octaves", "check_voice_leading",
      "check_chord_progressions", "check_cadences", "check_voice_spacing",
      "check_hidden_fifths_octaves", "check_voice_ranges",
      "check_melodic_intervals", "check_harmonic_rhythm",
      "check_doubled_leading_tone">>

RunCheck(name, s, k) ==
    CASE name = "check_parallel_fifths"       -> Guarded(check_parallel_fifths(s))
      [] name = "check_parallel_octaves"      -> Guarded(check_parallel_octaves(s))
      [] name = "check_voice_leading"         -> Guarded(check_voice_leading(s))
      [] name = "check_chord_progressions"    -> Guarded(check_chord_progressions(s))
      [] name = "check_cadences"              -> Guarded(check_cadences(s, k))
      [] name = "check_voice_spacing"         -> Guarded(check_voice_spacing(s))
      [] name = "check_hidden_fifths_octaves" -> Guarded(check_hidden_fifths_octaves(s))
      [] name = "check_voice_ranges"          -> Guarded(check_voice_ranges(s))
      [] name = "check_melodic_intervals"     -> Guarded(check_melodic_intervals(s))
      [] name = "check_harmonic_rhythm"       -> Guarded(check_harmonic_rhythm(s))
      [] name = "check_doubled_leading_tone"  -> Guarded(check_doubled_leading_tone(s, k))

(* the result of analyze() when the n-th call raised out of its check *)
Aborted(order, n, errs, r) ==
    [errors |-> errs \o r.errs, ran |-> <<order[n]>>,
     failed |-> IF r.exc THEN {order[n]} ELSE {}, raised |-> TRUE]

(* the result of analyze() from the n-th call, r, and the calls after it *)
Continued(order, n, r, rest) ==
    [errors |-> rest.errors,
     ran |-> <<order[n]>> \o rest.ran,
     failed |-> (IF r.exc THEN {order[n]} ELSE {}) \cup rest.failed,
     raised |-> rest.raised]

(* the calls from the n-th on, entered with self.errors = errs; r is what  *)
(* the n-th call does                                                      *)
RECURSIVE RunFrom(_, _, _, _, _)

(* a call that appends only while the finding list is empty *)
RunNextWhileEmpty(order, n, s, k, errs, r) ==
    IF r.raised THEN Aborted(order, n, errs, r)
    ELSE Continued(order, n, r,
                   RunFrom(order, n + 1, s, k,
                           IF errs = <<>> THEN r.errs ELSE errs))

RunNext(order, n, s, k, errs, r) ==
    IF r.raised THEN Aborted(order, n, errs, r)
    ELSE Continued(order, n, r, RunFrom(order, n + 1, s, k, errs \o r.errs))

RunFrom(order, n, s, k, errs) ==
    IF n > Len(order)
    THEN [errors |-> errs, ran |-> <<>>, failed |-> {}, raised |-> FALSE]
    ELSE RunNext(order, n, s, k, errs, RunCheck(order[n], s, k))

(* analyze() without the reset *)
KeepErrors(errs) == errs

(* self.errors at the start of the calls: analyze() resets it *)
ResetErrors(errs) == <<>>

(* analyze() on the analyzer state (s, k, errs) *)
analyze(s, k, errs) ==
    IF ~validate_score(s)
    THEN [errors |-> ResetErrors(errs), ran |-> <<>>, failed |-> {},
          raised |-> TRUE]
    ELSE RunFrom(Analyzers, 1, s, k, ResetErrors(errs))

----------------------------------------------------------------------------
(* The files the analyzer is given.  A file is what converter.parse and    *)
(* score.analyze('key') make of it: whether it parses, its parts, and the  *)
(* detected key or the failure of the key analysis.                        *)

NoteAt(p, k) == [kind |-> "note", ps |-> p.ps, dn |-> p.dn,
                 t |-> (k - 1) * TicksPerQuarter, d |-> TicksPerQuarter]

ChordAt(p, k) == [kind |-> "chord", ps |-> p.ps, dn |-> p.dn,
                  t |-> (k - 1) * TicksPerQuarter, d |-> TicksPerQuarter]

PitchC3 == Natural(22)
PitchG3 == Natural(26)
PitchA3 == Natural(27)
PitchC4 == Natural(29)
PitchD4 == Natural(30)
PitchG4 == Natural(33)
PitchA4 == Natural(34)
PitchD5 == Natural(37)

(* a line of n quarter notes alternating between the pitches a and b *)
Alternating(a, b, n) ==
    [k \in 1..n |-> NoteAt(IF k % 2 = 1 THEN a ELSE b, k)]

(* the same line with a Chord object on every odd beat *)
WithChords(a, b, n) ==
    [k \in 1..n |-> IF k % 2 = 1 THEN ChordAt(a, k) ELSE NoteAt(b, k)]

Lengths == 0..MaxLen

(* the lines each part is drawn from, highest part first: a stepwise line  *)
(* of every length, and lines of full length that leap or hold Chords      *)
TopLines    == {Alternating(PitchG4, PitchA4, n) : n \in Lengths}
                  \cup {Alternating(PitchG4, PitchD5, MaxLen)}
MiddleLines == {Alternating(PitchC4, PitchD4, n) : n \in Lengths}
                  \cup {Alternating(PitchC4, PitchG3, MaxLen)}
BottomLines == {Alternating(PitchG3, PitchA3, MaxLen),
                WithChords(PitchC3, PitchG3, MaxLen)}

PartLists ==
    {<<>>}
    \cup {<<a>> : a \in TopLines}
    \cup {<<a, b>> : <<a, b>> \in TopLines \X MiddleLines}
    \cup {<<a, b, c>> : <<a, b, c>> \in TopLines \X MiddleLines \X BottomLines}

CMajor == [tonic |-> NameC, mode |-> "major"]
GMajor == [tonic |-> NameG, mode |-> "major"]

File(parses, parts, keyfails, k) ==
    [parses |-> parses, parts |-> parts, keyfails |-> keyfails, key |-> k]

Files ==
    {File(TRUE, p, FALSE, CMajor) : p \in PartLists}
    \cup {File(TRUE, <<Alternating(PitchG4, PitchA4, MaxLen),
                       Alternating(PitchC4, PitchD4, MaxLen)>>, TRUE, NoKey),
          File(FALSE, <<>>, FALSE, NoKey)}

----------------------------------------------------------------------------
(* Reports *)

CountWhere(errs, test(_)) == Cardinality({n \in 1..Len(errs) : test(errs[n])})

Severities == {"high", "medium", "low"}

(* HarmonyAnalyzer.generate_report(): len(score.measures(0, None)) is the  *)
(* number of elements of the Score that measures() returns, its parts      *)
generate_report(s, k, errs) ==
    [total_errors |-> Len(errs),
     errors_by_severity |->
        [sev \in Severities |-> CountWhere(errs, LAMBDA e : e.severity = sev)],
     statistics |->
        [measures_analyzed |-> IF Truthy(s) THEN Len(s.parts) ELSE 0,
         key |-> k,
         total_voices |-> IF Truthy(s) THEN Len(s.parts) ELSE 0]]

NoReport == generate_report(NoScore, NoKey, <<>>)

----------------------------------------------------------------------------
(* The operations of one HarmonyAnalyzer object *)

NoAnalysis ==
    [stored |-> FALSE, errors |-> <<>>,
     statistics |-> [measures_analyzed |-> 0, key |-> NoKey,
                     total_voices |-> 0, midi_info |-> FALSE]]

Init ==
    /\ score = NoScore
    /\ key = NoKey
    /\ errors = <<>>
    /\ op = "init"
    /\ outcome = "ok"
    /\ ret = <<>>
    /\ ran = <<>>
    /\ failed = {}
    /\ prior = [op |-> "init", outcome |-> "ok", findings |-> 0]
    /\ report = NoReport
    /\ batch = <<>>
    /\ results = <<>>
    /\ session = NoAnalysis
    /\ uploads = {}
    /\ manager = NewManager

(* what the next operation finds *)
Called == prior' = [op |-> op, outcome |-> outcome, findings |-> Len(errors)]

(* load_score(path) on an analyzer holding the score s and the key k: the  *)
(* score is assigned before the key is analyzed                            *)
load_score(s, k, f) ==
    IF ~f.parses
    THEN [raised |-> TRUE, score |-> s, key |-> k]
    ELSE IF f.keyfails
    THEN [raised |-> TRUE, score |-> [loaded |-> TRUE, parts |-> f.parts],
          key |-> k]
    ELSE [raised |-> FALSE, score |-> [loaded |-> TRUE, parts |-> f.parts],
          key |-> f.key]

LoadScore(f) ==
    \E r \in {load_score(score, key, f)} :
        /\ op' = "load_score"
        /\ Called
        /\ outcome' = IF r.raised THEN "raised" ELSE "ok"
        /\ score' = r.score
        /\ key' = r.key
        /\ ret' = <<>>
        /\ ran' = <<>>
        /\ failed' = {}
        /\ UNCHANGED <<errors, report, webVars>>

Analyze ==
    \E r \in {analyze(score, key, errors)} :
        /\ op' = "analyze"
        /\ Called
        /\ outcome' = IF r.raised THEN "raised" ELSE "ok"
        /\ errors' = r.errors
        /\ ret' = IF r.raised THEN <<>> ELSE r.errors
        /\ ran' = r.ran
        /\ failed' = r.failed
        /\ UNCHANGED <<score, key, report, webVars>>

Clear ==
    /\ op' = "clear"
    /\ Called
    /\ outcome' = "ok"
    /\ score' = NoScore
    /\ errors' = <<>>
    /\ key' = NoKey
    /\ ret' = <<>>
    /\ ran' = <<>>
    /\ failed' = {}
    /\ UNCHANGED <<report, webVars>>

Next ==
    \/ \E f \in Files : LoadScore(f)
    \/ Analyze
    \/ Clear

Spec == Init /\ [][Next]_vars

(* a new analyzer after load_score(f) *)
Loaded(f) ==
    /\ score = load_score(NoScore, NoKey, f).score
    /\ key = load_score(NoScore, NoKey, f).key
    /\ errors = <<>>
    /\ op = "load_score"
    /\ outcome = IF load_score(NoScore, NoKey, f).raised THEN "raised" ELSE "ok"
    /\ ret = <<>>
    /\ ran = <<>>
    /\ failed = {}
    /\ prior = [op |-> "init", outcome |-> "ok", findings |-> 0]
    /\ report = NoReport
    /\ batch = <<>>
    /\ results = <<>>
    /\ session = NoAnalysis
    /\ uploads = {}
    /\ manager = NewManager

(* the operations on a loaded score *)
NextLoaded ==
    \/ Analyze
    \/ Clear

----------------------------------------------------------------------------
(* Properties of analyze() *)

(* a score with no voices, fewer than 2 voices, or a voice without events *)
InvalidScore(s) ==
    \/ ~s.loaded
    \/ Len(s.parts) < 2
    \/ \E i \in 1..Len(s.parts) : Len(s.parts[i]) = 0

FindingTypes ==
    {"Parallel Fifths", "Parallel Octaves", "Large Leap", "Consecutive Leaps",
     "Voice Crossing", "Chord Position", "Weak Progression", "Root Motion",
     "Cadence", "Voice Spacing", "Hidden Perfect Interval", "Voice Range",
     "Melodic Interval", "Harmonic Rhythm", "Doubled Leading Tone"}

(* C1: analyze() on a score with no voices, fewer than 2 voices or a voice *)
(* with zero events fails before any analyzer has executed, and leaves the *)
(* finding list empty, whatever findings an earlier analysis had left.     *)
C1_InvalidScoreRejected ==
    (op = "analyze" /\ InvalidScore(score))
        => (outcome = "raised" /\ ran = <<>> /\ errors = <<>>)

(* an invalid score was analyzed by an analyzer that held findings of an   *)
(* earlier successful analysis                                             *)
C1_Witness ==
    /\ op = "analyze" /\ InvalidScore(score) /\ score.loaded
    /\ Len(score.parts) = 1
    /\ prior.findings > 0
    /\ errors = <<>>

(* C2: analyze() on a score of at least 2 voices, each with at least one   *)
(* event, returns its finding list and does not raise.                     *)
C2_ValidScoreAnalyzed ==
    (op = "analyze" /\ ~InvalidScore(score))
        => (outcome = "ok" /\ ret = errors /\ ran = Analyzers)

(* a score whose voices differ in length was analyzed *)
C2_Witness ==
    /\ op = "analyze" /\ outcome = "ok"
    /\ Len(score.parts) = 3
    /\ Len(score.parts[1]) > Len(score.parts[2])
    /\ Len(score.parts[2]) < Len(score.parts[3])

(* C3: analyze() called again right after an analyze() that returned, on   *)
(* the same score, returns the same finding list.                          *)
C3_AnalyzeIdempotent ==
    [][(op = "analyze" /\ outcome = "ok" /\ op' = "analyze")
          => (outcome' = "ok" /\ ret' = ret)]_vars

(* the second of two analyses in a row returned two or more findings *)
C3_Witness ==
    /\ op = "analyze" /\ outcome = "ok"
    /\ prior.op = "analyze" /\ prior.outcome = "ok"
    /\ Len(ret) >= 2
    /\ prior.findings = Len(ret)

(* C10: when an exception is caught inside an analyzer of a valid score,   *)
(* every analyzer of analyze() has still run, analyze() has returned, and  *)
(* the list holds findings of the rules only.                              *)
C10_FailureIsLocal ==
    (op = "analyze" /\ ~InvalidScore(score) /\ failed # {})
        => /\ outcome = "ok"
           /\ ran = Analyzers
           /\ \A n \in 1..Len(errors) : errors[n].type \in FindingTypes

(* the first analyzer failed on an index the shorter voice does not have,  *)
(* and the analyzers after it still produced findings                      *)
C10_Witness ==
    /\ op = "analyze" /\ outcome = "ok"
    /\ "check_parallel_fifths" \in failed
    /\ ran = Analyzers
    /\ \E n \in 1..Len(errors) : errors[n].type = "Cadence"

(* the calls of analyze() in other orders: backwards, and starting from    *)
(* each call in turn                                                       *)
Reversed(seq) == [n \in 1..Len(seq) |-> seq[Len(seq) + 1 - n]]

Rotated(seq, by) == [n \in 1..Len(seq) |-> seq[((n - 1 + by) % Len(seq)) + 1]]

OtherOrders ==
    {Reversed(Analyzers)} \cup {Rotated(Analyzers, by) : by \in 1..(Len(Analyzers) - 1)}

(* every file of Files, loaded into a new analyzer *)
InitOrder == \E f \in Files : Loaded(f)

SpecOrder == InitOrder /\ [][NextLoaded]_vars

(* two finding lists hold the same findings, each as many times *)
SameFindings(a, b) ==
    /\ Len(a) = Len(b)
    /\ \A e \in {a[n] : n \in 1..Len(a)} :
          Cardinality({n \in 1..Len(a) : a[n] = e})
            = Cardinality({n \in 1..Len(b) : b[n] = e})

(* the calls r returned, with the findings errs in some order *)
AgreesWith(r, errs) == ~r.raised /\ SameFindings(r.errors, errs)

(* C13: after an analysis that returned, the calls of analyze() made in    *)
(* any other order over the same score and key return as well, with the    *)
(* same findings, each as many times; only their order in the list may     *)
(* differ.                                                                 *)
C13_OrderIndependent ==
    (op = "analyze" /\ outcome = "ok") =>
        \A order \in OtherOrders :
            AgreesWith(RunFrom(order, 1, score, key, <<>>), errors)

(* findings of three or more analyzers were returned, and backwards the    *)
(* calls give them in another order                                        *)
C13_Witness ==
    /\ op = "analyze" /\ outcome = "ok"
    /\ Cardinality({errors[n].type : n \in 1..Len(errors)}) >= 3
    /\ RunFrom(Reversed(Analyzers), 1, score, key, <<>>).errors # errors

----------------------------------------------------------------------------
(* Properties of check_parallel_fifths and check_parallel_octaves *)

(* the perfect intervals of counterpoint, simple or compound, between two  *)
(* pitches, by their diatonic and chromatic sizes                          *)
IsPerfectFifth(a, b) ==
    /\ Abs(b.dn - a.dn) % 7 = 4
    /\ Abs(b.ps - a.ps) = 12 * (Abs(b.dn - a.dn) \div 7) + 7

IsPerfectOctave(a, b) ==
    /\ Abs(b.dn - a.dn) >= 7
    /\ Abs(b.dn - a.dn) % 7 = 0
    /\ Abs(b.ps - a.ps) = 12 * (Abs(b.dn - a.dn) \div 7)

(* both voices have notes at k and k+1 and move in the same direction *)
SimilarMotionAt(parts, i, j, k) ==
    /\ k + 1 <= Len(parts[i]) /\ k + 1 <= Len(parts[j])
    /\ \A e \in {parts[i][k], parts[i][k + 1], parts[j][k], parts[j][k + 1]} :
           HasPitch(e)
    /\ (parts[i][k + 1].ps - parts[i][k].ps)
         * (parts[j][k + 1].ps - parts[j][k].ps) > 0

ParallelFifthsAt(parts, i, j, k) ==
    /\ SimilarMotionAt(parts, i, j, k)
    /\ IsPerfectFifth(Pitch(parts[i][k]), Pitch(parts[j][k]))
    /\ IsPerfectFifth(Pitch(parts[i][k + 1]), Pitch(parts[j][k + 1]))

ParallelOctavesAt(parts, i, j, k) ==
    /\ SimilarMotionAt(parts, i, j, k)
    /\ IsPerfectOctave(Pitch(parts[i][k]), Pitch(parts[j][k]))
    /\ IsPerfectOctave(Pitch(parts[i][k + 1]), Pitch(parts[j][k + 1]))

Measures == 1..(((MaxLen * TicksPerQuarter) \div TicksPerMeasure) + 1)

(* the findings of one type for one pair of voices in one measure *)
FindingsFor(errs, type, severity, i, j, m) ==
    Cardinality({n \in 1..Len(errs) :
                    /\ errs[n].type = type /\ errs[n].severity = severity
                    /\ errs[n].voice1 = i /\ errs[n].voice2 = j
                    /\ errs[n].measure = m})

FindingsOfType(errs, type) ==
    Cardinality({n \in 1..Len(errs) : errs[n].type = type})

NotesOnly(s) ==
    \A i \in 1..Len(s.parts) : \A k \in 1..Len(s.parts[i]) :
        HasPitch(s.parts[i][k])

(* the positions k of voice i in measure m *)
PositionsIn(parts, i, m) ==
    {k \in 1..Len(parts[i]) : MeasureNumber(parts[i][k]) = m}

(* C4: after an analysis of a score of notes, for every pair of voices     *)
(* i < j and every measure, the high 'Parallel Fifths' findings for (i, j) *)
(* in that measure are one for each k of the measure where both intervals  *)
(* are perfect fifths and the voices move in the same direction (so none   *)
(* for contrary motion), and the same for 'Parallel Octaves' with perfect  *)
(* octaves.                                                                *)
C4_ParallelFindings ==
    (op = "analyze" /\ outcome = "ok" /\ NotesOnly(score)) =>
        \A pr \in {q \in (1..Len(score.parts)) \X (1..Len(score.parts)) :
                       q[1] < q[2]} :
            \A m \in Measures :
                /\ FindingsFor(errors, "Parallel Fifths", "high",
                               pr[1], pr[2], m)
                     = Cardinality({k \in PositionsIn(score.parts, pr[1], m) :
                           ParallelFifthsAt(score.parts, pr[1], pr[2], k)})
                /\ FindingsFor(errors, "Parallel Octaves", "high",
                               pr[1], pr[2], m)
                     = Cardinality({k \in PositionsIn(score.parts, pr[1], m) :
                           ParallelOctavesAt(score.parts, pr[1], pr[2], k)})

(* the part of C4 about fifths alone: one finding per (i, j, k) in         *)
(* parallel fifths, and the total of 'Parallel Fifths' findings is the     *)
(* number of such (i, j, k)                                                *)
C4_FifthsOnly ==
    (op = "analyze" /\ outcome = "ok" /\ NotesOnly(score)) =>
        /\ \A pr \in {q \in (1..Len(score.parts)) \X (1..Len(score.parts)) :
                       q[1] < q[2]} :
             \A m \in Measures :
                FindingsFor(errors, "Parallel Fifths", "high", pr[1], pr[2], m)
                  = Cardinality({k \in PositionsIn(score.parts, pr[1], m) :
                        ParallelFifthsAt(score.parts, pr[1], pr[2], k)})
        /\ FindingsOfType(errors, "Parallel Fifths")
             = Cardinality({t \in (1..Len(score.parts)) \X (1..Len(score.parts))
                                    \X (1..MaxLen) :
                              /\ t[1] < t[2]
                              /\ ParallelFifthsAt(score.parts, t[1], t[2], t[3])})

(* voices 1 and 3 move in parallel octaves and voices 1 and 2 in parallel  *)
(* fifths; the analysis found the fifths                                   *)
C4_Witness ==
    /\ op = "analyze" /\ outcome = "ok" /\ NotesOnly(score)
    /\ Len(score.parts) = 3
    /\ ParallelOctavesAt(score.parts, 1, 3, 1)
    /\ ParallelFifthsAt(score.parts, 1, 2, 1)
    /\ FindingsFor(errors, "Parallel Fifths", "high", 1, 2, 1) = 1

(* contrary motion between two perfect fifths was analyzed *)
C4_ContraryWitness ==
    /\ op = "analyze" /\ outcome = "ok" /\ NotesOnly(score)
    /\ Len(score.parts) >= 2
    /\ Len(score.parts[1]) >= 2 /\ Len(score.parts[2]) >= 2
    /\ IsPerfectFifth(Pitch(score.parts[1][1]), Pitch(score.parts[2][1]))
    /\ IsPerfectFifth(Pitch(score.parts[1][2]), Pitch(score.parts[2][2]))
    /\ ~SimilarMotionAt(score.parts, 1, 2, 1)
    /\ FindingsOfType(errors, "Parallel Fifths") = 0

----------------------------------------------------------------------------
(* Scores at the edges of the vocal ranges, for check_voice_ranges *)

MaxVoices == 5

(* the pitch of a MIDI number, black keys spelled as sharps *)
StepOfPc == <<0, 0, 1, 1, 2, 3, 3, 4, 4, 5, 5, 6>>
PitchOfMidi(m) ==
    [ps |-> m, dn |-> 7 * ((m \div 12) - 1) + StepOfPc[(m % 12) + 1] + 1]

(* MIDI numbers of a voice: around both ends of its range, or for a voice  *)
(* without a range a very low and a very high one                          *)
EdgeMidi(v) ==
    IF v <= Len(VoiceRanges)
    THEN {VoiceRanges[v][1] - 1, VoiceRanges[v][1],
          VoiceRanges[v][2], VoiceRanges[v][2] + 1}
    ELSE {24, 96}

RestingMidi(v) == IF v <= Len(VoiceRanges) THEN VoiceRanges[v][1] ELSE 60

(* the lines of the voice under test: one note, the note twice, the note   *)
(* after a Chord object, the note before a Chord object                    *)
EdgeLines(v) ==
    UNION {{<<NoteAt(PitchOfMidi(m), 1)>>,
            <<NoteAt(PitchOfMidi(m), 1), NoteAt(PitchOfMidi(m), 2)>>,
            <<ChordAt(PitchOfMidi(RestingMidi(v)), 1),
              NoteAt(PitchOfMidi(m), 2)>>,
            <<NoteAt(PitchOfMidi(m), 1),
              ChordAt(PitchOfMidi(RestingMidi(v)), 2)>>} : m \in EdgeMidi(v)}

RangeFiles ==
    {File(TRUE,
          [u \in 1..n |-> IF u = v THEN line
                          ELSE <<NoteAt(PitchOfMidi(RestingMidi(u)), 1)>>],
          FALSE, CMajor) :
        <<n, v, line>> \in
            {t \in {MaxVoices - 1, MaxVoices} \X (1..MaxVoices)
                     \X UNION {EdgeLines(w) : w \in 1..MaxVoices} :
                 t[2] <= t[1] /\ t[3] \in EdgeLines(t[2])}}

NextRange ==
    \/ \E f \in RangeFiles : LoadScore(f)
    \/ Analyze
    \/ Clear

SpecRange == Init /\ [][NextRange]_vars

----------------------------------------------------------------------------
(* Properties of check_voice_ranges *)

(* the bands of the four voices, floor and ceiling *)
Bands == <<<<60, 79>>, <<55, 74>>, <<48, 67>>, <<40, 60>>>>

(* the notes of voice v in measure m outside the band of the voice *)
OutOfBand(parts, v, m) ==
    {k \in PositionsIn(parts, v, m) :
        /\ HasPitch(parts[v][k])
        /\ \/ parts[v][k].ps < Bands[v][1]
           \/ parts[v][k].ps > Bands[v][2]}

VoiceRangeFindings(errs, v, m) ==
    FindingsFor(errs, "Voice Range", "medium", v, None, m)

VoiceRangeAsClaimed(s, errs) ==
    /\ \A v \in 1..Len(s.parts) : \A m \in Measures :
          VoiceRangeFindings(errs, v, m)
            = IF v <= 4 THEN Cardinality(OutOfBand(s.parts, v, m)) ELSE 0
    /\ \A n \in 1..Len(errs) :
          errs[n].type = "Voice Range"
            => errs[n].severity = "medium" /\ errs[n].voice1 \in 1..4

(* C5: after an analysis, each voice of index 0..3 has one medium 'Voice   *)
(* Range' finding for every note below the floor or above the ceiling of   *)
(* its band (60,79), (55,74), (48,67), (40,60) and none for a note inside  *)
(* the band, and a voice of index 4 or more has no 'Voice Range' finding.  *)
C5_VoiceRange ==
    (op = "analyze" /\ outcome = "ok") => VoiceRangeAsClaimed(score, errors)

(* the same over scores whose events are all notes *)
C5_NotesOnly ==
    (op = "analyze" /\ outcome = "ok" /\ NotesOnly(score))
        => VoiceRangeAsClaimed(score, errors)

(* voice 1 holds a Chord object and then a note of MIDI pitch 59, below    *)
(* its floor, and the analysis returned no 'Voice Range' finding           *)
C5_Witness ==
    /\ op = "analyze" /\ outcome = "ok"
    /\ Len(score.parts[1]) = 2
    /\ ~HasPitch(score.parts[1][1])
    /\ HasPitch(score.parts[1][2]) /\ score.parts[1][2].ps = 59
    /\ FindingsOfType(errors, "Voice Range") = 0
    /\ "check_voice_ranges" \in failed

(* a fifth voice far outside every band, two notes of voice 1 below the    *)
(* floor: two findings, both for voice 1                                   *)
C5_NotesWitness ==
    /\ op = "analyze" /\ outcome = "ok" /\ NotesOnly(score)
    /\ Len(score.parts) = 5
    /\ Len(score.parts[1]) = 2 /\ score.parts[1][1].ps = 59
    /\ FindingsOfType(errors, "Voice Range") = 2

(* an event before position k of voice v in the pass of check_voice_ranges, *)
(* voice by voice and event by event, has no pitch                         *)
OffendingBefore(parts, v, k) ==
    \/ \E j \in 1..(k - 1) : ~HasPitch(parts[v][j])
    \/ \E u \in 1..(v - 1) : \E j \in 1..Len(parts[u]) : ~HasPitch(parts[u][j])

(* C11: after an analysis, a note outside the band of its voice that comes *)
(* after an event on which the range check failed still has its 'Voice     *)
(* Range' finding: the check skipped the offending event alone.            *)
C11_SkipsOnlyOffending ==
    (op = "analyze" /\ outcome = "ok") =>
        \A v \in 1..Len(score.parts) : \A m \in Measures :
            (/\ v <= 4
             /\ \E k \in OutOfBand(score.parts, v, m) :
                    OffendingBefore(score.parts, v, k))
                => VoiceRangeFindings(errors, v, m) >= 1

(* the events before the offending one keep their findings: the findings   *)
(* appended before the check ended are all there                           *)
C11_FindingsBeforeFailure ==
    (op = "analyze" /\ outcome = "ok") =>
        \A v \in 1..Len(score.parts) : \A m \in Measures :
            (/\ v <= 4
             /\ \E k \in OutOfBand(score.parts, v, m) :
                    ~OffendingBefore(score.parts, v, k))
                => VoiceRangeFindings(errors, v, m) >= 1

(* voice 2 holds a Chord object and then a note of MIDI pitch 54, below    *)
(* its floor of 55; the range check failed and there is no finding for it  *)
C11_Witness ==
    /\ op = "analyze" /\ outcome = "ok"
    /\ "check_voice_ranges" \in failed
    /\ Len(score.parts[2]) = 2
    /\ ~HasPitch(score.parts[2][1])
    /\ HasPitch(score.parts[2][2]) /\ score.parts[2][2].ps = 54
    /\ VoiceRangeFindings(errors, 2, 1) = 0

(* voice 1 holds a note of MIDI pitch 59 and then a Chord object: the      *)
(* finding for the note was appended before the check ended                *)
C11_BeforeWitness ==
    /\ op = "analyze" /\ outcome = "ok"
    /\ "check_voice_ranges" \in failed
    /\ Len(score.parts[1]) = 2
    /\ HasPitch(score.parts[1][1]) /\ score.parts[1][1].ps = 59
    /\ ~HasPitch(score.parts[1][2])
    /\ VoiceRangeFindings(errors, 1, 1) = 1

----------------------------------------------------------------------------
(* Scores whose key analysis fails: load_score() raises after it has set   *)
(* self.score, and self.key stays as it was                                *)

KeylessFiles ==
    {File(TRUE, p, TRUE, NoKey) : p \in PartLists}
    \cup {File(TRUE, <<Alternating(PitchG4, PitchA4, MaxLen),
                        Alternating(PitchC4, PitchD4, MaxLen)>>, FALSE, CMajor)}

NextKeyless ==
    \/ \E f \in KeylessFiles : LoadScore(f)
    \/ Analyze
    \/ Clear

SpecKeyless == Init /\ [][NextKeyless]_vars

(* the findings of the checks that need a key *)
NeedsKey(e) == e.type \in {"Cadence", "Doubled Leading Tone"}

NeedsNoKey(e) == ~NeedsKey(e)

(* C12: analyze() on a valid score without a key returns; its list has no  *)
(* 'Cadence' and no 'Doubled Leading Tone' finding, the two checks have    *)
(* not failed, and the list is what the analysis of the same score with a  *)
(* key gives for all other types.                                          *)
C12_NoKeySkips ==
    (op = "analyze" /\ ~InvalidScore(score) /\ key = NoKey) =>
        /\ outcome = "ok"
        /\ ran = Analyzers
        /\ SelectSeq(errors, NeedsKey) = <<>>
        /\ "check_cadences" \notin failed
        /\ "check_doubled_leading_tone" \notin failed
        /\ errors = SelectSeq(analyze(score, CMajor, <<>>).errors, NeedsNoKey)

(* a score without a key was analyzed and has findings, and with a key the *)
(* cadence check would have added one                                      *)
C12_Witness ==
    /\ op = "analyze" /\ outcome = "ok" /\ key = NoKey
    /\ Len(score.parts) = 3
    /\ errors # <<>>
    /\ SelectSeq(analyze(score, CMajor, <<>>).errors, NeedsKey) # <<>>

----------------------------------------------------------------------------
(* Scores that end with a cadence in a major key, for check_cadences *)

MajorScale == <<0, 2, 4, 5, 7, 9, 11>>

(* the pitch on scale degree d (1, 2, ... upwards) of the major key whose  *)
(* tonic is the pitch t                                                    *)
DegreeUp(t, d) ==
    [dn |-> t.dn + (d - 1),
     ps |-> t.ps + 12 * ((d - 1) \div 7) + MajorScale[((d - 1) % 7) + 1]]

(* the triad on degree d from the lowest part up: in root position, first  *)
(* or second inversion                                                     *)
Voicing(t, d, inv) ==
    IF inv = 0 THEN <<DegreeUp(t, d), DegreeUp(t, d + 2), DegreeUp(t, d + 4)>>
    ELSE IF inv = 1
    THEN <<DegreeUp(t, d + 2), DegreeUp(t, d + 4), DegreeUp(t, d + 7)>>
    ELSE <<DegreeUp(t, d + 4), DegreeUp(t, d + 7), DegreeUp(t, d + 9)>>

(* three parts, highest first, sounding the chords of a progression, one   *)
(* chord on every quarter                                                  *)
PartsOfChords(voicings) ==
    [i \in 1..3 |-> [n \in 1..Len(voicings) |-> NoteAt(voicings[n][4 - i], n)]]

CadenceTonics == {PitchC3, Natural(25), PitchG3}

CadenceFiles ==
    {File(TRUE,
          PartsOfChords(lead \o <<Voicing(t, pen, 0), Voicing(t, fin, inv)>>),
          FALSE, [tonic |-> Name(t), mode |-> "major"]) :
        <<t, lead, pen, fin, inv>> \in
            CadenceTonics \X {<<>>, <<Voicing(PitchC3, 1, 0)>>}
                \X {5, 4, 2} \X {1, 6} \X {0, 1, 2}}

NextCadence ==
    \/ \E f \in CadenceFiles : LoadScore(f)
    \/ Analyze
    \/ Clear

SpecCadence == Init /\ [][NextCadence]_vars

----------------------------------------------------------------------------
(* Properties of check_cadences *)

(* the name of the note on scale degree d of the major key k *)
ScaleDegreeName(k, d) ==
    <<(k.tonic[1] + (d - 1)) % 7, (k.tonic[2] + MajorScale[d]) % 12>>

(* the roots of the last two reduced chords are on the degrees d1 and d2 *)
FinalRootMotion(s, k, d1, d2) ==
    LET chords == Chordify(s)
    IN  /\ Len(chords) >= 2
        /\ Name(Root(chords[Len(chords) - 1])) = ScaleDegreeName(k, d1)
        /\ Name(Root(chords[Len(chords)])) = ScaleDegreeName(k, d2)

FinalInversion(s) ==
    LET chords == Chordify(s) IN Inversion(chords[Len(chords)])

CadenceAsClaimed(s, errs) ==
    IF FinalInversion(s) = 0
    THEN FindingsOfType(errs, "Cadence") = 0
    ELSE /\ FindingsOfType(errs, "Cadence") = 1
         /\ \A n \in 1..Len(errs) :
               errs[n].type = "Cadence" => errs[n].severity = "high"

(* C6: after an analysis with a detected key, when the roots of the last   *)
(* two reduced chords are on degree 5 and then degree 1 of that key, there *)
(* is no 'Cadence' finding if the final chord is in root position, and     *)
(* exactly one, of severity high, if it is inverted.                       *)
C6_AuthenticCadence ==
    (op = "analyze" /\ outcome = "ok" /\ key # NoKey
       /\ FinalRootMotion(score, key, 5, 1))
        => CadenceAsClaimed(score, errors)

(* the same in the key of C major only *)
C6_InCMajor ==
    (op = "analyze" /\ outcome = "ok" /\ key = CMajor
       /\ FinalRootMotion(score, key, 5, 1))
        => CadenceAsClaimed(score, errors)

(* in G major the piece ends D major to G major, both in root position,    *)
(* and the analysis returned a 'Cadence' finding                           *)
C6_Witness ==
    /\ op = "analyze" /\ outcome = "ok" /\ key = GMajor
    /\ FinalRootMotion(score, key, 5, 1)
    /\ FinalInversion(score) = 0
    /\ \E n \in 1..Len(errors) :
          /\ errors[n].type = "Cadence"
          /\ errors[n].description = "Non-standard final cadence"

(* in C major the piece ends G major to C major in first inversion, and    *)
(* the analysis returned the one finding about the position of the chord   *)
C6_CMajorWitness ==
    /\ op = "analyze" /\ outcome = "ok" /\ key = CMajor
    /\ FinalRootMotion(score, key, 5, 1)
    /\ FinalInversion(score) = 1
    /\ FindingsOfType(errors, "Cadence") = 1

----------------------------------------------------------------------------
(* Report helpers: harmony_checker/utils.py and the report of the          *)
(* single-file harmony_checker.py                                          *)

RECURSIVE CategorizeFrom(_, _)
CategorizeFrom(errs, categories) ==
    IF errs = <<>> THEN categories
    ELSE CategorizeFrom(Tail(errs),
             [categories EXCEPT ![Head(errs).severity] = @ + 1])

(* utils.categorize_errors_by_severity *)
categorize_errors_by_severity(errs) ==
    CategorizeFrom(errs, [sev \in Severities |-> 0])

(* a dict in insertion order, as the sequence of its items *)
IndexOfType(items, type) ==
    IF \E n \in 1..Len(items) : items[n].type = type
    THEN CHOOSE n \in 1..Len(items) : items[n].type = type
    ELSE 0

RECURSIVE CountTypesFrom(_, _)
CountTypesFrom(errs, items) ==
    IF errs = <<>> THEN items
    ELSE LET error == Head(errs)
             n     == IndexOfType(items, error.type)
         IN  CountTypesFrom(Tail(errs),
                 IF n = 0
                 THEN Append(items, [type |-> error.type, count |-> 1,
                                     severity |-> error.severity])
                 ELSE [items EXCEPT ![n].count = @ + 1])

SeverityWeight == [sev \in Severities |->
                      IF sev = "high" THEN 3 ELSE IF sev = "medium" THEN 2 ELSE 1]

(* the sort key (count, weight) of a is not below that of b *)
KeyNotBelow(a, b) ==
    \/ a.count > b.count
    \/ /\ a.count = b.count
       /\ SeverityWeight[a.severity] >= SeverityWeight[b.severity]

(* sorted(items, key=..., reverse=True): descending, and stable, so items  *)
(* of equal key stay in their order                                        *)
RECURSIVE SortedReverse(_, _)
SortedReverse(items, sorted) ==
    IF items = <<>> THEN sorted
    ELSE LET x == Head(items)
             n == Cardinality({m \in 1..Len(sorted) : KeyNotBelow(sorted[m], x)})
         IN  SortedReverse(Tail(items),
                 SubSeq(sorted, 1, n) \o <<x>> \o SubSeq(sorted, n + 1, Len(sorted)))

MaxCommonProblems == 5

(* the string "<type>: <count> occurrences (<severity> severity)" by its   *)
(* three parts                                                             *)
FormatProblem(item) ==
    [type |-> item.type, occurrences |-> item.count, severity |-> item.severity]

(* utils.identify_common_problems *)
identify_common_problems(errs) ==
    LET error_types     == CountTypesFrom(errs, <<>>)
        ranked_problems == SortedReverse(error_types, <<>>)
        top == SubSeq(ranked_problems, 1,
                      IF Len(ranked_problems) < MaxCommonProblems
                      THEN Len(ranked_problems) ELSE MaxCommonProblems)
    IN  [n \in 1..Len(top) |-> FormatProblem(top[n])]

(* harmony_checker.py: HarmonyAnalyzer._categorize_errors, the dict of     *)
(* type to count as its items                                              *)
_categorize_errors(errs) ==
    LET items == CountTypesFrom(errs, <<>>)
    IN  [n \in 1..Len(items) |-> [type |-> items[n].type,
                                  count |-> items[n].count]]

(* harmony_checker.py: HarmonyAnalyzer._identify_common_problems *)
_identify_common_problems(errs) ==
    LET categories == _categorize_errors(errs)
    IN  Concat([n \in 1..Len(categories) |->
                   IF categories[n].count > 1 THEN <<categories[n].type>>
                   ELSE <<>>])

(* harmony_checker.py: HarmonyAnalyzer.generate_report *)
legacy_generate_report(s, errs) ==
    [total_errors |-> Len(errs),
     errors_by_type |-> _categorize_errors(errs),
     statistics |->
        [measures_analyzed |-> IF Truthy(s) THEN Len(s.parts) ELSE 0,
         common_problems |-> _identify_common_problems(errs)]]

----------------------------------------------------------------------------
(* Reports over given finding lists *)

MaxFindings == 5

FindingKinds ==
    {HarmonyError("Large Leap", 1, "Large melodic leap", "medium", 1, None),
     HarmonyError("Voice Crossing", 1, "Voice crossing", "medium", 1, 2),
     HarmonyError("Parallel Fifths", 2, "Parallel fifth movement", "high", 1, 2),
     HarmonyError("Voice Spacing", 1, "Excessive spacing", "medium", 1, 2),
     HarmonyError("Voice Spacing", 2, "Total voice spacing", "low", 1, 2)}

FindingLists == UNION {[1..n -> FindingKinds] : n \in 0..MaxFindings}

ReportedScores ==
    {NoScore,
     [loaded |-> TRUE, parts |-> <<Alternating(PitchG4, PitchA4, 2),
                                   Alternating(PitchC4, PitchD4, 2)>>]}

InitReport ==
    /\ score \in ReportedScores
    /\ key = IF score = NoScore THEN NoKey ELSE CMajor
    /\ errors \in FindingLists
    /\ op = "init"
    /\ outcome = "ok"
    /\ ret = <<>>
    /\ ran = <<>>
    /\ failed = {}
    /\ prior = [op |-> "init", outcome |-> "ok", findings |-> Len(errors)]
    /\ report = NoReport
    /\ batch = <<>>
    /\ results = <<>>
    /\ session = NoAnalysis
    /\ uploads = {}
    /\ manager = NewManager

Reported(name, value) ==
    /\ op' = name
    /\ Called
    /\ outcome' = "ok"
    /\ report' = value
    /\ UNCHANGED <<score, key, errors, ret, ran, failed, webVars>>

CategorizeErrorsBySeverity ==
    Reported("categorize_errors_by_severity",
             categorize_errors_by_severity(errors))

IdentifyCommonProblems ==
    Reported("identify_common_problems", identify_common_problems(errors))

LegacyGenerateReport ==
    Reported("legacy_generate_report", legacy_generate_report(score, errors))

AnalyzerGenerateReport ==
    Reported("generate_report", generate_report(score, key, errors))

NextReport ==
    \/ AnalyzerGenerateReport
    \/ CategorizeErrorsBySeverity
    \/ IdentifyCommonProblems
    \/ LegacyGenerateReport

SpecReport == InitReport /\ [][NextReport]_vars

----------------------------------------------------------------------------
(* Properties of the reports *)

ReportCalls == {"generate_report", "categorize_errors_by_severity",
                "identify_common_problems", "legacy_generate_report"}

FindingsOfSeverity(errs, sev) ==
    Cardinality({n \in 1..Len(errs) : errs[n].severity = sev})

TypesOf(errs) == {errs[n].type : n \in 1..Len(errs)}

(* buckets are exactly high, medium and low, each the number of findings   *)
(* of that severity, and they sum to total                                 *)
SeverityBuckets(buckets, errs, total) ==
    /\ DOMAIN buckets = {"high", "medium", "low"}
    /\ \A sev \in DOMAIN buckets : buckets[sev] = FindingsOfSeverity(errs, sev)
    /\ buckets["high"] + buckets["medium"] + buckets["low"] = total
    /\ total = Len(errs)

(* items holds one count for each type that occurs, the number of findings *)
(* of that type                                                            *)
TypeBuckets(items, errs) ==
    /\ {items[n].type : n \in 1..Len(items)} = TypesOf(errs)
    /\ Len(items) = Cardinality(TypesOf(errs))
    /\ \A n \in 1..Len(items) :
          items[n].count = FindingsOfType(errs, items[n].type)

ReportCounts ==
    /\ op = "generate_report"
          => SeverityBuckets(report.errors_by_severity, errors,
                             report.total_errors)
    /\ op = "categorize_errors_by_severity"
          => SeverityBuckets(report, errors, Len(errors))
    /\ op = "legacy_generate_report"
          => /\ TypeBuckets(report.errors_by_type, errors)
             /\ report.total_errors = Len(errors)

(* a report call leaves the finding list as it was, and the same call      *)
(* again gives the same report                                             *)
ReportStep ==
    /\ op' \in ReportCalls => errors' = errors
    /\ (op \in ReportCalls /\ op' = op) => report' = report

(* the report of generate_report also counts the findings by type *)
CountsByType ==
    op = "generate_report"
        => /\ "errors_by_type" \in DOMAIN report
           /\ TypeBuckets(report.errors_by_type, errors)

(* C7: a report counts the findings by severity into exactly the buckets   *)
(* high, medium and low, and by type, each bucket being the number of      *)
(* findings of that severity or type and the severity buckets summing to   *)
(* total_errors; building a report does not change the finding list, and   *)
(* building it again on the same list gives the same report.               *)
C7_ReportAggregation ==
    [](ReportCounts /\ CountsByType) /\ [][ReportStep]_vars

(* the counts each report does hold, and the repeated calls *)
C7_CountsWhereBuilt == []ReportCounts /\ [][ReportStep]_vars

(* a report of three 'Large Leap' and one 'Voice Crossing', all medium,    *)
(* was built a second time: four medium findings, and no count by type     *)
C7_Witness ==
    /\ op = "generate_report" /\ prior.op = "generate_report"
    /\ Len(errors) = 4
    /\ FindingsOfType(errors, "Large Leap") = 3
    /\ FindingsOfType(errors, "Voice Crossing") = 1
    /\ report.errors_by_severity["medium"] = 4
    /\ "errors_by_type" \notin DOMAIN report

(* the same finding list counted by type *)
C7_ByTypeWitness ==
    /\ op = "legacy_generate_report"
    /\ FindingsOfType(errors, "Large Leap") = 3
    /\ FindingsOfType(errors, "Voice Crossing") = 1
    /\ \E n \in 1..Len(report.errors_by_type) :
          report.errors_by_type[n] = [type |-> "Large Leap", count |-> 3]

(* the types that occur more than once *)
RepeatedTypes(errs) == {t \in TypesOf(errs) : FindingsOfType(errs, t) > 1}

(* the greatest severity weight, high=3, medium=2, low=1, among the        *)
(* findings of a type                                                      *)
WeightOf(sev) == IF sev = "high" THEN 3 ELSE IF sev = "medium" THEN 2 ELSE 1

(* listed names each repeated type once and no other type *)
ListsRepeatedTypes(listed, errs) ==
    /\ {listed[n] : n \in 1..Len(listed)} = RepeatedTypes(errs)
    /\ Len(listed) = Cardinality(RepeatedTypes(errs))

(* C8: the list of common problems holds exactly the types that occur more *)
(* than once in the finding list, by count descending and, for equal       *)
(* counts, by severity weight descending (high=3, medium=2, low=1).        *)
C8_CommonProblems ==
    /\ op = "identify_common_problems" =>
          /\ ListsRepeatedTypes([n \in 1..Len(report) |-> report[n].type],
                                errors)
          /\ \A n \in 1..Len(report) : \A m \in 1..Len(report) :
                n < m =>
                  \/ report[n].occurrences > report[m].occurrences
                  \/ /\ report[n].occurrences = report[m].occurrences
                     /\ WeightOf(report[n].severity)
                          >= WeightOf(report[m].severity)
    /\ op = "legacy_generate_report" =>
          /\ ListsRepeatedTypes(report.statistics.common_problems, errors)
          /\ \A n \in 1..Len(report.statistics.common_problems) :
             \A m \in 1..Len(report.statistics.common_problems) :
                n < m =>
                  FindingsOfType(errors, report.statistics.common_problems[n])
                    >= FindingsOfType(errors,
                                      report.statistics.common_problems[m])

(* the ranking alone: what identify_common_problems lists is by count      *)
(* descending, then by the weight of the severity it shows                 *)
C8_RankingOnly ==
    op = "identify_common_problems" =>
        \A n \in 1..Len(report) : \A m \in 1..Len(report) :
            n < m =>
              \/ report[n].occurrences > report[m].occurrences
              \/ /\ report[n].occurrences = report[m].occurrences
                 /\ WeightOf(report[n].severity) >= WeightOf(report[m].severity)

(* one finding, and its type is listed as a common problem *)
C8_Witness ==
    /\ op = "identify_common_problems"
    /\ Len(errors) = 1
    /\ Len(report) = 1
    /\ report[1].occurrences = 1

(* two repeated types, the rarer first in the finding list: the older      *)
(* report lists them in that order                                         *)
C8_LegacyWitness ==
    /\ op = "legacy_generate_report"
    /\ Len(report.statistics.common_problems) = 2
    /\ FindingsOfType(errors, report.statistics.common_problems[1])
         < FindingsOfType(errors, report.statistics.common_problems[2])

----------------------------------------------------------------------------
(* app.py: the upload route.  An uploaded file is its filename, as         *)
(* <<base name, extension>>, and its content: whether its size and MIME    *)
(* type are accepted, whether it converts from MIDI, whether the MusicXML  *)
(* has the required elements, and what music21 makes of it.  The upload    *)
(* folder is the set of the files in it, [path, content].                  *)

ALLOWED_EXTENSIONS == {"musicxml", "xml", "mid", "midi"}

allowed_file(filename) == filename[2] \in ALLOWED_EXTENSIONS

Content(typeok, converts, wellformed, file) ==
    [typeok |-> typeok, converts |-> converts, wellformed |-> wellformed,
     file |-> file]

Exists(folder, path) == \E x \in folder : x.path = path

Remove(folder, path) == {x \in folder : x.path # path}

Save(folder, path, content) ==
    Remove(folder, path) \cup {[path |-> path, content |-> content]}

Read(folder, path) == (CHOOSE x \in folder : x.path = path).content

IsMidi(filename) == filename[2] \in {"mid", "midi"}

NoResult == [filename |-> <<"", "">>, results |-> <<>>, report |-> NoReport,
             midi |-> FALSE]

(* analyze_file raises: the finally block removes filepath if it exists *)
Raises(st, folder, filepath) ==
    [raised |-> TRUE, result |-> NoResult, session |-> st.session,
     folder |-> Remove(folder, filepath)]

(* analyze_file returns: the result, session['last_analysis'], and the    *)
(* finally block; r is what analyzer.analyze() returned and rep the report *)
Returns(filename, filepath, folder, r, rep, midi) ==
    [raised |-> FALSE,
     result |-> [filename |-> filename, results |-> r.errors,
                 report |-> rep, midi |-> midi],
     session |-> [stored |-> TRUE, errors |-> r.errors,
                  statistics |->
                      [measures_analyzed |-> rep.statistics.measures_analyzed,
                       key |-> rep.statistics.key,
                       total_voices |-> rep.statistics.total_voices,
                       midi_info |-> midi]],
     folder |-> Remove(folder, filepath)]

(* analyze_file after analyzer.analyze(), whose outcome is r *)
AfterAnalyze(filename, filepath, folder, st, midi, loaded, r) ==
    IF r.raised THEN Raises(st, folder, filepath)
    ELSE Returns(filename, filepath, folder, r,
                 generate_report(loaded.score, loaded.key, r.errors), midi)

(* analyze_file after analyzer.load_score(filepath), whose outcome is      *)
(* loaded                                                                  *)
AfterLoad(filename, filepath, folder, st, midi, loaded) ==
    IF loaded.raised THEN Raises(st, folder, filepath)
    ELSE AfterAnalyze(filename, filepath, folder, st, midi, loaded,
                      analyze(loaded.score, loaded.key, <<>>))

(* analyze_file from the validation of the MusicXML structure on; midi     *)
(* tells whether midi_info is among the locals                             *)
AnalyzeMusicXML(filename, filepath, folder, st, midi) ==
    IF ~Read(folder, filepath).wellformed THEN Raises(st, folder, filepath)
    ELSE AfterLoad(filename, filepath, folder, st, midi,
                   load_score(NoScore, NoKey, Read(folder, filepath).file))

(* analyze_file for a MIDI upload, saved being the folder after file.save: *)
(* the conversion writes <base>.musicxml next to it, and filepath becomes  *)
(* that path                                                               *)
AnalyzeMidi(filename, saved, st) ==
    IF ~Read(saved, filename).converts THEN Raises(st, saved, filename)
    ELSE AnalyzeMusicXML(filename, <<filename[1], "musicxml">>,
                         Save(saved, <<filename[1], "musicxml">>,
                              Content(TRUE, FALSE, TRUE,
                                      Read(saved, filename).file)),
                         st, TRUE)

(* analyze_file(file, filename), with st the session and the upload folder *)
analyze_file(file, st) ==
    IF ~file.content.typeok THEN Raises(st, st.folder, file.filename)
    ELSE IF IsMidi(file.filename)
    THEN AnalyzeMidi(file.filename,
                     Save(st.folder, file.filename, file.content), st)
    ELSE AnalyzeMusicXML(file.filename, file.filename,
                         Save(st.folder, file.filename, file.content),
                         st, FALSE)

(* the loop of index() goes on with the next file after a failure *)
StopBatch(files, n) == Len(files) + 1

AfterFailure(files, n) == n + 1

(* a file that fails makes the session forget its last analysis *)
HandledForgetting(acc, r) ==
    IF r.raised
    THEN [acc EXCEPT !.flashes = @ + 1, !.folder = r.folder,
                     !.session = NoAnalysis]
    ELSE [acc EXCEPT !.analysis_results = Append(@, r.result),
                     !.session = r.session,
                     !.folder = r.folder]

(* the accumulated state of the loop after the n-th file, r being what    *)
(* analyze_file did                                                        *)
Handled(acc, r) ==
    IF r.raised
    THEN [acc EXCEPT !.flashes = @ + 1, !.folder = r.folder]
    ELSE [acc EXCEPT !.analysis_results = Append(@, r.result),
                     !.session = r.session,
                     !.folder = r.folder]

NextFile(files, n, r) == IF r.raised THEN AfterFailure(files, n) ELSE n + 1

RECURSIVE IndexFrom(_, _, _)
IndexAt(files, n, acc, r) ==
    IndexFrom(files, NextFile(files, n, r), Handled(acc, r))

IndexFrom(files, n, acc) ==
    IF n > Len(files) THEN acc
    ELSE IF ~allowed_file(files[n].filename)
    THEN IndexFrom(files, n + 1, [acc EXCEPT !.flashes = @ + 1])
    ELSE IndexAt(files, n, acc,
                 analyze_file(files[n], [session |-> acc.session,
                                         folder |-> acc.folder]))

(* index() for a POST request with the files of a batch *)
index(files, st) ==
    LET start == [analysis_results |-> <<>>, session |-> st.session,
                  folder |-> st.folder, flashes |-> 0]
    IN  IF files = <<>> THEN start ELSE IndexFrom(files, 1, start)

----------------------------------------------------------------------------
(* Upload requests *)

MaxFiles == 2

ScoreA == File(TRUE, <<Alternating(PitchG4, PitchA4, 2),
                       Alternating(PitchC4, PitchD4, 2)>>, FALSE, CMajor)
ScoreB == File(TRUE, <<Alternating(PitchG4, PitchD5, 2),
                       Alternating(PitchC4, PitchG3, 2)>>, FALSE, CMajor)
OneVoice == File(TRUE, <<Alternating(PitchG4, PitchA4, 2)>>, FALSE, CMajor)
Unparsable == File(FALSE, <<>>, FALSE, NoKey)

Upload(base, ext, content) ==
    [filename |-> <<base, ext>>, content |-> content]

Uploaded ==
    {Upload("a", "musicxml", Content(TRUE, FALSE, TRUE, ScoreA)),
     Upload("a", "mid", Content(TRUE, TRUE, FALSE, ScoreB)),
     Upload("a", "txt", Content(TRUE, FALSE, TRUE, ScoreA)),
     Upload("b", "musicxml", Content(TRUE, FALSE, FALSE, ScoreB)),
     Upload("b", "musicxml", Content(TRUE, FALSE, TRUE, OneVoice)),
     Upload("a", "musicxml", Content(TRUE, FALSE, TRUE, Unparsable)),
     Upload("b", "mid", Content(FALSE, FALSE, FALSE, ScoreA))}

Batches == UNION {[1..n -> Uploaded] : n \in 0..MaxFiles}

Index(files) ==
    \E r \in {index(files, [session |-> session, folder |-> uploads])} :
        /\ op' = "index"
        /\ outcome' = IF r.analysis_results = <<>> THEN "redirect"
                      ELSE "rendered"
        /\ batch' = files
        /\ results' = r.analysis_results
        /\ session' = r.session
        /\ uploads' = r.folder
        /\ UNCHANGED <<analyzerVars, prior, report, manager>>

NextWeb == \E files \in Batches : Index(files)

SpecWeb == Init /\ [][NextWeb]_vars

----------------------------------------------------------------------------
(* Properties of the upload route *)

(* what analyze_file makes of one file submitted alone to a new session    *)
(* and an empty upload folder                                              *)
Alone(file) == analyze_file(file, [session |-> NoAnalysis, folder |-> {}])

SucceedsAlone(file) == allowed_file(file.filename) /\ ~Alone(file).raised

(* the files of the batch, up to the n-th, that succeed alone *)
SucceedingUpTo(files, n) == {m \in 1..n : SucceedsAlone(files[m])}

(* C9: after a batch, the batch results are the results of exactly the     *)
(* files that are analyzed successfully when submitted alone, in the order *)
(* of the batch, each with the findings it gets alone, whatever type       *)
(* check, validation, load or analysis failed for the other files.         *)
C9_BatchIsolation ==
    op = "index" =>
        /\ Len(results) = Cardinality(SucceedingUpTo(batch, Len(batch)))
        /\ \A n \in SucceedingUpTo(batch, Len(batch)) :
              LET got == results[Cardinality(SucceedingUpTo(batch, n))]
              IN  /\ got.filename = batch[n].filename
                  /\ got.results = Alone(batch[n]).result.results

(* a file with findings was analyzed after a file that failed and was      *)
(* listed alone in the results                                             *)
C9_Witness ==
    /\ op = "index" /\ Len(batch) = 2
    /\ ~SucceedsAlone(batch[1]) /\ allowed_file(batch[1].filename)
    /\ SucceedsAlone(batch[2])
    /\ Len(results) = 1
    /\ results[1].results # <<>>
    /\ results[1].results = Alone(batch[2]).result.results

(***************************************************************************)
(* Scores of two or three voices for the checks that compare voices: the   *)
(* outer voices take every line of at most MaxPairLen quarter notes over   *)
(* PairPitches, the middle voice one of three lines.                       *)
(***************************************************************************)
MaxPairLen == 2

PitchE4 == Natural(31)

PairPitches == {PitchC3, PitchG3, PitchE4, PitchG4, PitchD5}

(* every line of n quarter notes over the pitches *)
LinesOver(pitches, n) ==
    {[k \in 1..n |-> NoteAt(p[k], k)] : p \in [1..n -> pitches]}

OuterLines == UNION {LinesOver(PairPitches, n) : n \in 1..MaxPairLen}

InnerLines == {Alternating(PitchG3, PitchE4, 1),
               Alternating(PitchE4, PitchG3, MaxPairLen),
               Alternating(PitchD5, PitchG4, MaxPairLen)}

PairFiles ==
    {File(TRUE, <<a, b>>, FALSE, CMajor) : <<a, b>> \in OuterLines \X OuterLines}
    \cup {File(TRUE, <<a, b, c>>, FALSE, CMajor) :
              <<a, b, c>> \in OuterLines \X InnerLines \X OuterLines}

InitPairs == \E f \in PairFiles : Loaded(f)

SpecPairs == InitPairs /\ [][NextLoaded]_vars

(* the events k of measure m at which voice i sounds below voice j *)
CrossingsIn(parts, i, j, m) ==
    {k \in PositionsIn(parts, i, m) :
        /\ k <= Len(parts[j])
        /\ HasPitch(parts[i][k]) /\ HasPitch(parts[j][k])
        /\ parts[i][k].ps < parts[j][k].ps}

(* C14: after an analysis, for every pair of voices i < j and every        *)
(* measure, the medium 'Voice Crossing' findings for (i, j) in that        *)
(* measure are one for each event k of the measure, the last event of a    *)
(* voice included, at which both voices sound and voice i is strictly      *)
(* below voice j.                                                          *)
C14_VoiceCrossing ==
    (op = "analyze" /\ outcome = "ok") =>
        \A i \in 1..Len(score.parts) : \A j \in (i + 1)..Len(score.parts) :
            \A m \in Measures :
                FindingsFor(errors, "Voice Crossing", "medium", i, j, m)
                    = Cardinality(CrossingsIn(score.parts, i, j, m))

(* what the analysis does find: the crossings of a voice with the voice    *)
(* directly below it, at every event of the upper voice but its last       *)
C14_AdjacentBeforeLast ==
    (op = "analyze" /\ outcome = "ok") =>
        \A i \in 1..Len(score.parts) : \A j \in (i + 1)..Len(score.parts) :
            \A m \in Measures :
                FindingsFor(errors, "Voice Crossing", "medium", i, j, m)
                    = Cardinality({k \in CrossingsIn(score.parts, i, j, m) :
                                      j = i + 1 /\ k < Len(score.parts[i])})

(* a three-voice score was analyzed in which the top voice is below the    *)
(* bottom voice at its last event and below the middle voice at its first, *)
(* and only the latter was found                                           *)
C14_Witness ==
    /\ op = "analyze" /\ outcome = "ok"
    /\ Len(score.parts) = 3
    /\ Len(score.parts[1]) = MaxPairLen
    /\ MaxPairLen \in CrossingsIn(score.parts, 1, 3, 1)
    /\ 1 \in CrossingsIn(score.parts, 1, 2, 1)
    /\ FindingsFor(errors, "Voice Crossing", "medium", 1, 3, 1) = 0
    /\ FindingsFor(errors, "Voice Crossing", "medium", 1, 2, 1) >= 1

OctaveSize == 12
TwoOctavesSize == 24

(* the events k of measure m at which voices i and j sound pitches more    *)
(* than size semitones apart                                               *)
ApartIn(parts, i, j, m, size) ==
    {k \in PositionsIn(parts, i, m) :
        /\ k <= Len(parts[j])
        /\ HasPitch(parts[i][k]) /\ HasPitch(parts[j][k])
        /\ Abs(parts[i][k].ps - parts[j][k].ps) > size}

(* C15: after an analysis, a voice and the voice directly below it have a  *)
(* medium 'Voice Spacing' finding in a measure exactly when they sound     *)
(* more than 12 semitones apart at an event of it, the outermost voices    *)
(* have a low one exactly when they sound more than 24 semitones apart,    *)
(* and there is no other 'Voice Spacing' finding.                          *)
C15_VoiceSpacing ==
    (op = "analyze" /\ outcome = "ok") =>
        /\ \A i \in 1..(Len(score.parts) - 1) : \A m \in Measures :
               FindingsFor(errors, "Voice Spacing", "medium", i, i + 1, m) >= 1
                   <=> ApartIn(score.parts, i, i + 1, m, OctaveSize) # {}
        /\ \A m \in Measures :
               FindingsFor(errors, "Voice Spacing", "low",
                           1, Len(score.parts), m) >= 1
                   <=> ApartIn(score.parts, 1, Len(score.parts), m,
                               TwoOctavesSize) # {}
        /\ \A n \in 1..Len(errors) :
               errors[n].type = "Voice Spacing" =>
                   \/ /\ errors[n].severity = "medium"
                      /\ errors[n].voice2 = errors[n].voice1 + 1
                   \/ /\ errors[n].severity = "low"
                      /\ errors[n].voice1 = 1
                      /\ errors[n].voice2 = Len(score.parts)

(* what the analysis does: the spacing check of a score of two or more     *)
(* voices fails before its first comparison and leaves no finding          *)
C15_SpacingCheckFails ==
    (op = "analyze" /\ outcome = "ok") =>
        /\ FindingsOfType(errors, "Voice Spacing") = 0
        /\ "check_voice_spacing" \in failed

(* a three-voice score was analyzed whose upper voices are more than an    *)
(* octave apart and whose outer voices are more than two octaves apart,    *)
(* and it has no 'Voice Spacing' finding                                   *)
C15_Witness ==
    /\ op = "analyze" /\ outcome = "ok"
    /\ Len(score.parts) = 3
    /\ ApartIn(score.parts, 1, 2, 1, OctaveSize) # {}
    /\ ApartIn(score.parts, 1, 3, 1, TwoOctavesSize) # {}
    /\ score.parts[1][1].ps > score.parts[2][1].ps
    /\ score.parts[2][1].ps > score.parts[3][1].ps
    /\ FindingsOfType(errors, "Voice Spacing") = 0

(* the outermost voices move in the same direction from k to k+1, the      *)
(* upper one by more than a step                                           *)
OuterLeapAt(parts, k) ==
    /\ SimilarMotionAt(parts, 1, Len(parts), k)
    /\ Abs(parts[1][k + 1].ps - parts[1][k].ps) > 2

HiddenFifthAt(parts, k) ==
    /\ OuterLeapAt(parts, k)
    /\ IsPerfectFifth(Pitch(parts[1][k + 1]), Pitch(parts[Len(parts)][k + 1]))

HiddenOctaveAt(parts, k) ==
    /\ OuterLeapAt(parts, k)
    /\ IsPerfectOctave(Pitch(parts[1][k + 1]), Pitch(parts[Len(parts)][k + 1]))

OnlyOuterHidden(errs, parts) ==
    \A n \in 1..Len(errs) :
        errs[n].type = "Hidden Perfect Interval" =>
            /\ errs[n].severity = "low"
            /\ errs[n].voice1 = 1 /\ errs[n].voice2 = Len(parts)

(* C16: after an analysis, the low 'Hidden Perfect Interval' findings of a *)
(* measure are one for each k of the measure at which the outermost voices *)
(* move in the same direction, the upper one by more than 2 semitones,     *)
(* into a perfect fifth or a perfect octave, and every such finding is for *)
(* the outermost pair.                                                     *)
C16_HiddenPerfectInterval ==
    (op = "analyze" /\ outcome = "ok") =>
        /\ OnlyOuterHidden(errors, score.parts)
        /\ \A m \in Measures :
               FindingsFor(errors, "Hidden Perfect Interval", "low",
                           1, Len(score.parts), m)
                   = Cardinality({k \in PositionsIn(score.parts, 1, m) :
                                     \/ HiddenFifthAt(score.parts, k)
                                     \/ HiddenOctaveAt(score.parts, k)})

(* what the analysis does find: the hidden fifths *)
C16_HiddenFifthsOnly ==
    (op = "analyze" /\ outcome = "ok") =>
        /\ OnlyOuterHidden(errors, score.parts)
        /\ \A m \in Measures :
               FindingsFor(errors, "Hidden Perfect Interval", "low",
                           1, Len(score.parts), m)
                   = Cardinality({k \in PositionsIn(score.parts, 1, m) :
                                     HiddenFifthAt(score.parts, k)})

(* a score whose outermost voices leap in similar motion into an octave    *)
(* was analyzed and has no 'Hidden Perfect Interval' finding               *)
C16_Witness ==
    /\ op = "analyze" /\ outcome = "ok"
    /\ Len(score.parts) = 3
    /\ HiddenOctaveAt(score.parts, 1)
    /\ FindingsOfType(errors, "Hidden Perfect Interval") = 0

(* a hidden fifth of the outermost voices was found while the inner voice  *)
(* leaps with the top voice into a fifth as well                           *)
C16_FifthWitness ==
    /\ op = "analyze" /\ outcome = "ok"
    /\ Len(score.parts) = 3
    /\ HiddenFifthAt(score.parts, 1)
    /\ SimilarMotionAt(score.parts, 1, 2, 1)
    /\ IsPerfectFifth(Pitch(score.parts[1][2]), Pitch(score.parts[2][2]))
    /\ FindingsOfType(errors, "Hidden Perfect Interval") = 1

(***************************************************************************)
(* Scores of two voices for the checks of one voice's line: one voice      *)
(* takes every line of at most MaxRun notes over LeapPitches (a major      *)
(* third, a fourth and a sixth apart), every line of at most MaxPairLen    *)
(* notes over IntervalPitches, or a line with a Chord object in it; the    *)
(* other voice holds a line of two leaps.                                  *)
(***************************************************************************)
MaxRun == 5

Sharp(p) == [ps |-> p.ps + 1, dn |-> p.dn]
Flat(p) == [ps |-> p.ps - 1, dn |-> p.dn]

PitchF4 == Natural(32)
PitchB4 == Natural(35)
PitchC5 == Natural(36)

LeapPitches == {PitchC4, PitchE4, PitchA4}

IntervalPitches == {PitchC4, PitchE4, Sharp(PitchF4), Flat(PitchG4),
                    PitchB4, PitchC5, PitchD5}

LeapLines == UNION {LinesOver(LeapPitches, n) : n \in 1..MaxRun}

IntervalLines == UNION {LinesOver(IntervalPitches, n) : n \in 1..MaxPairLen}

(* D5 C4 (Chord) C4 D5 *)
ChordLine == <<NoteAt(PitchD5, 1), NoteAt(PitchC4, 2), ChordAt(PitchC4, 3),
               NoteAt(PitchC4, 4), NoteAt(PitchD5, 5)>>

MelodyLines == LeapLines \cup IntervalLines \cup {ChordLine}

(* C4 A4 C4 *)
TwoLeaps == Alternating(PitchC4, PitchA4, 3)

CompanionLines == {TwoLeaps}

MelodyFiles ==
    {File(TRUE, <<a, b>>, FALSE, CMajor) :
         <<a, b>> \in MelodyLines \X CompanionLines}
    \cup {File(TRUE, <<b, a>>, FALSE, CMajor) :
              <<a, b>> \in MelodyLines \X CompanionLines}

InitMelody == \E f \in MelodyFiles : Loaded(f)

SpecMelody == InitMelody /\ [][NextLoaded]_vars

MelodyMeasures == 1..(((MaxRun * TicksPerQuarter) \div TicksPerMeasure) + 1)

(* the findings of one type and severity for one voice in one measure *)
VoiceFindings(errs, type, severity, v, m) ==
    FindingsFor(errs, type, severity, v, None, m)

(* events k and k+1 of the line are notes *)
PairAt(line, k) ==
    /\ k + 1 <= Len(line)
    /\ HasPitch(line[k]) /\ HasPitch(line[k + 1])

Distance(line, k) == Abs(line[k + 1].ps - line[k].ps)

(* every finding of the type has the severity and names one voice *)
OnlyOfVoices(errs, type, severity, parts) ==
    \A n \in 1..Len(errs) :
        errs[n].type = type =>
            /\ errs[n].severity = severity
            /\ errs[n].voice1 \in 1..Len(parts) /\ errs[n].voice2 = None
            /\ errs[n].measure \in MelodyMeasures

C17_OctaveWitness ==
    /\ op = "analyze" /\ outcome = "ok"
    /\ \E v \in 1..Len(score.parts) :
          /\ Len(score.parts[v]) = 2
          /\ PairAt(score.parts[v], 1)
          /\ Distance(score.parts[v], 1) = 12
    /\ FindingsOfType(errors, "Large Leap") = 0

Largest(S) == CHOOSE x \in S : \A y \in S : y <= x

(* the pair (k, k+1) of the line is a leap: more than 4 semitones *)
IsLeapAt(line, k) == Distance(line, k) > 4

(* the counter after the pair (k, k+1): the number of leaps in a row that  *)
(* end at k, counted from the last pair before k that is no leap           *)
LeapsInARow(line, k) ==
    k - Largest({0} \cup {j \in 1..k : ~IsLeapAt(line, j)})

NotesOnlyLine(line) == \A k \in 1..Len(line) : HasPitch(line[k])

(* the pairs (k, k+1) of the line from first to last are all leaps, and    *)
(* the pairs around them are not                                           *)
IsRun(line, first, last) ==
    /\ first <= last /\ last < Len(line)
    /\ \A k \in first..last : IsLeapAt(line, k)
    /\ first > 1 => ~IsLeapAt(line, first - 1)
    /\ last + 1 < Len(line) => ~IsLeapAt(line, last + 1)

C18_RunFindings ==
    (op = "analyze" /\ outcome = "ok") =>
        \A v \in 1..Len(score.parts) :
            NotesOnlyLine(score.parts[v]) =>
                \A first, last \in 1..MaxRun :
                    IsRun(score.parts[v], first, last) =>
                        Cardinality({n \in 1..Len(errors) :
                            /\ errors[n].type = "Consecutive Leaps"
                            /\ errors[n].voice1 = v
                            /\ \E k \in first..last :
                                  /\ errors[n].measure
                                         = MeasureNumber(score.parts[v][k])
                                  /\ LeapsInARow(score.parts[v], k) > 2})
                            = IF last - first + 1 >= 3
                              THEN last - first - 1 ELSE 0

C18_ResetWitness ==
    /\ op = "analyze" /\ outcome = "ok"
    /\ score.parts[1] = TwoLeaps
    /\ Len(score.parts[2]) = 5
    /\ IsRun(score.parts[2], 1, 2)
    /\ Distance(score.parts[2], 3) = 4
    /\ IsRun(score.parts[2], 4, 4)
    /\ FindingsOfType(errors, "Consecutive Leaps") = 0

(* the simple name of the interval from event k to event k+1 of the line *)
NameAt(line, k) == SimpleName(Pitch(line[k]), Pitch(line[k + 1]))

(* C19: after an analysis, for every voice and every measure, the high     *)
(* 'Melodic Interval' findings of the voice in the measure are one for     *)
(* each pair of consecutive notes of the measure whose interval is         *)
(* augmented, the medium ones are one for each pair whose simple name is   *)
(* a major 7th, a diminished 5th or an augmented 4th, and there is no      *)
(* other 'Melodic Interval' finding.                                       *)
C19_MelodicInterval ==
    (op = "analyze" /\ outcome = "ok") =>
        \A v \in 1..Len(score.parts) : \A m \in MelodyMeasures :
            /\ VoiceFindings(errors, "Melodic Interval", "high", v, m)
                   = Cardinality({k \in PositionsIn(score.parts, v, m) :
                                     /\ PairAt(score.parts[v], k)
                                     /\ Augmented(NameAt(score.parts[v], k))})
            /\ VoiceFindings(errors, "Melodic Interval", "medium", v, m)
                   = Cardinality({k \in PositionsIn(score.parts, v, m) :
                                     /\ PairAt(score.parts[v], k)
                                     /\ NameAt(score.parts[v], k)
                                            \in {M7, d5, A4}})

(* what the analysis does: every pair raises at the test of the           *)
(* interval's quality and is skipped, and the check returns without a      *)
(* finding                                                                 *)
C19_NoMelodicFinding ==
    (op = "analyze" /\ outcome = "ok") =>
        /\ FindingsOfType(errors, "Melodic Interval") = 0
        /\ "check_melodic_intervals" \in {ran[n] : n \in 1..Len(ran)}
        /\ "check_melodic_intervals" \in failed
                <=> \E v \in 1..Len(score.parts) : Len(score.parts[v]) >= 2

(* a voice that moves by an augmented 4th was analyzed and has no          *)
(* 'Melodic Interval' finding                                              *)
C19_Witness ==
    /\ op = "analyze" /\ outcome = "ok"
    /\ \E v \in 1..Len(score.parts) :
          /\ PairAt(score.parts[v], 1)
          /\ NameAt(score.parts[v], 1) = A4
          /\ Augmented(NameAt(score.parts[v], 1))
    /\ FindingsOfType(errors, "Melodic Interval") = 0

(* the same for a voice that moves by a major 7th *)
C19_SeventhWitness ==
    /\ op = "analyze" /\ outcome = "ok"
    /\ \E v \in 1..Len(score.parts) :
          /\ PairAt(score.parts[v], 1)
          /\ NameAt(score.parts[v], 1) = M7
    /\ FindingsOfType(errors, "Melodic Interval") = 0

(***************************************************************************)
(* Scores of three voices sounding two to MaxChords root-position triads   *)
(* on the degrees 1, 2, 4 and 5 of C, F or G major, one on every quarter,  *)
(* with that key detected.                                                 *)
(***************************************************************************)
MaxChords == 3

ProgressionDegrees == {1, 2, 4, 5}

Progressions ==
    UNION {[1..n -> ProgressionDegrees] : n \in 2..MaxChords}

ProgressionFiles ==
    {File(TRUE,
          PartsOfChords([n \in 1..Len(degrees) |-> Voicing(t, degrees[n], 0)]),
          FALSE, [tonic |-> Name(t), mode |-> "major"]) :
        <<t, degrees>> \in CadenceTonics \X Progressions}

InitProgression == \E f \in ProgressionFiles : Loaded(f)

SpecProgression == InitProgression /\ [][NextLoaded]_vars

ProgressionMeasures ==
    1..(((MaxChords * TicksPerQuarter) \div TicksPerMeasure) + 1)

(* the reduced chords n of measure m, from the first one on, whose root    *)
(* and the root of the chord before have the names from and to             *)
RootMotionsIn(s, m, first, from, to) ==
    LET chords == Chordify(s)
    IN  {n \in first..Len(chords) :
            /\ MeasureNumber(chords[n]) = m
            /\ Name(Root(chords[n - 1])) = from
            /\ Name(Root(chords[n])) = to}

WeakProgressionsIn(errs, m) ==
    Cardinality({n \in 1..Len(errs) :
                    /\ errs[n].type = "Weak Progression"
                    /\ errs[n].severity = "medium"
                    /\ errs[n].measure = m})

OnlyMediumWeak(errs) ==
    \A n \in 1..Len(errs) :
        errs[n].type = "Weak Progression" =>
            /\ errs[n].severity = "medium"
            /\ errs[n].measure \in ProgressionMeasures

(* C20: after an analysis with a detected key, the medium 'Weak            *)
(* Progression' findings of a measure are one for each reduced chord of    *)
(* the measure, the second chord of the piece included, whose root is on   *)
(* degree 4 of the key while the root of the chord before it is on degree  *)
(* 5, and there is no other 'Weak Progression' finding.                    *)
C20_WeakProgression ==
    (op = "analyze" /\ outcome = "ok" /\ key # NoKey) =>
        /\ OnlyMediumWeak(errors)
        /\ \A m \in ProgressionMeasures :
               WeakProgressionsIn(errors, m)
                   = Cardinality(RootMotionsIn(score, m, 2,
                                               ScaleDegreeName(key, 5),
                                               ScaleDegreeName(key, 4)))

(* what the analysis does find: from the third chord on, the roots named   *)
(* G and then F, whatever the key                                          *)
C20_GThenFAfterFirstPair ==
    (op = "analyze" /\ outcome = "ok") =>
        /\ OnlyMediumWeak(errors)
        /\ \A m \in ProgressionMeasures :
               WeakProgressionsIn(errors, m)
                   = Cardinality(RootMotionsIn(score, m, 3, NameG, NameF))

(* V - IV in C major was analyzed as the first pair of a piece and has no  *)
(* 'Weak Progression' finding                                              *)
C20_Witness ==
    /\ op = "analyze" /\ outcome = "ok" /\ key = CMajor
    /\ Len(Chordify(score)) = 2
    /\ RootMotionsIn(score, 1, 2, ScaleDegreeName(key, 5),
                     ScaleDegreeName(key, 4)) = {2}
    /\ FindingsOfType(errors, "Weak Progression") = 0

(* three chords ending V - IV in G major (roots D then C) were analyzed    *)
(* and have no 'Weak Progression' finding                                  *)
C20_OtherKeyWitness ==
    /\ op = "analyze" /\ outcome = "ok" /\ key = GMajor
    /\ Len(Chordify(score)) = 3
    /\ Name(Root(Chordify(score)[2])) = ScaleDegreeName(key, 5)
    /\ Name(Root(Chordify(score)[3])) = ScaleDegreeName(key, 4)
    /\ FindingsOfType(errors, "Weak Progression") = 0

(* three chords ending ii - I in F major (roots G then F) were analyzed    *)
(* and have a 'Weak Progression' finding                                   *)
C20_WrongKeyWitness ==
    /\ op = "analyze" /\ outcome = "ok"
    /\ key = [tonic |-> NameF, mode |-> "major"]
    /\ Len(Chordify(score)) = 3
    /\ Name(Root(Chordify(score)[2])) = ScaleDegreeName(key, 2)
    /\ Name(Root(Chordify(score)[3])) = ScaleDegreeName(key, 1)
    /\ FindingsOfType(errors, "Weak Progression") = 1

(* V - IV in C major after a first chord was analyzed and has its finding  *)
C20_FoundWitness ==
    /\ op = "analyze" /\ outcome = "ok" /\ key = CMajor
    /\ RootMotionsIn(score, 2, 3, ScaleDegreeName(key, 5),
                     ScaleDegreeName(key, 4)) = {3}
    /\ WeakProgressionsIn(errors, 2) = 1

(* the 'Cadence' findings are exactly one, of the severity *)
OneCadence(errs, severity) ==
    /\ FindingsOfType(errs, "Cadence") = 1
    /\ \A n \in 1..Len(errs) :
          errs[n].type = "Cadence" => errs[n].severity = severity

(* the cadence part of the claim for a final root motion from degree 4 to  *)
(* degree 1 (medium) and for one that is neither 5 - 1 nor 4 - 1 (high),   *)
(* the degrees taken in the key k                                          *)
CadenceClassified(s, k, errs) ==
    /\ FindingsOfType(errs, "Cadence") <= 1
    /\ Len(Chordify(s)) < 2 => FindingsOfType(errs, "Cadence") = 0
    /\ FinalRootMotion(s, k, 4, 1) => OneCadence(errs, "medium")
    /\ (/\ Len(Chordify(s)) >= 2
        /\ ~FinalRootMotion(s, k, 5, 1)
        /\ ~FinalRootMotion(s, k, 4, 1)) => OneCadence(errs, "high")

(* C21: after an analysis with a detected key, there is at most one        *)
(* 'Cadence' finding; none with fewer than 2 reduced chords; exactly one,  *)
(* medium, when the roots of the last two reduced chords are on degrees 4  *)
(* and 1 of the key; exactly one, high, when they are neither on 5 and 1   *)
(* nor on 4 and 1.                                                         *)
C21_CadenceClassification ==
    (op = "analyze" /\ outcome = "ok" /\ key # NoKey) =>
        CadenceClassified(score, key, errors)

(* the same in the key of C major only *)
C21_InCMajor ==
    (op = "analyze" /\ outcome = "ok" /\ key = CMajor) =>
        CadenceClassified(score, key, errors)

(* with fewer than 2 reduced chords the cadence check neither adds a       *)
(* finding nor catches an exception, and in every case there is at most    *)
(* one 'Cadence' finding                                                   *)
C21_FewChords ==
    (op = "analyze" /\ outcome = "ok") =>
        /\ FindingsOfType(errors, "Cadence") <= 1
        /\ "check_cadences" \notin failed
        /\ (key # NoKey /\ Len(Chordify(score)) < 2)
               => FindingsOfType(errors, "Cadence") = 0

(* in G major the piece ends C major to G major (IV - I) and the analysis  *)
(* returned a high 'Cadence' finding                                       *)
C21_Witness ==
    /\ op = "analyze" /\ outcome = "ok" /\ key = GMajor
    /\ FinalRootMotion(score, key, 4, 1)
    /\ OneCadence(errors, "high")

(* in C major the piece ends F major to C major and the analysis returned  *)
(* the medium finding                                                      *)
C21_PlagalWitness ==
    /\ op = "analyze" /\ outcome = "ok" /\ key = CMajor
    /\ FinalRootMotion(score, key, 4, 1)
    /\ OneCadence(errors, "medium")

(* a score with a key and one reduced chord was analyzed *)
C21_FewChordsWitness ==
    /\ op = "analyze" /\ outcome = "ok" /\ key # NoKey
    /\ Len(Chordify(score)) = 1
    /\ ran = Analyzers
    /\ FindingsOfType(errors, "Cadence") = 0

(***************************************************************************)
(* Scores of two or three voices over B3, C4 and B4, lines of at most      *)
(* MaxPairLen quarter notes, in C major (leading tone B) or G major        *)
(* (leading tone F sharp).                                                 *)
(***************************************************************************)
PitchB3 == Natural(28)

LeadingLines ==
    UNION {LinesOver({PitchB3, PitchC4, PitchB4}, n) : n \in 1..MaxPairLen}

LeadingFiles ==
    {File(TRUE, <<a, b>>, FALSE, k) :
         <<a, b, k>> \in LeadingLines \X LeadingLines \X {CMajor, GMajor}}
    \cup {File(TRUE, <<a, b, c>>, FALSE, CMajor) :
              <<a, b, c>> \in LeadingLines \X LeadingLines \X LeadingLines}

InitLeading == \E f \in LeadingFiles : Loaded(f)

SpecLeading == InitLeading /\ [][NextLoaded]_vars

(* the voices in which the pitch class of degree 7 of the key k sounds at  *)
(* the time tau                                                            *)
LeadingVoicesAt(parts, k, tau) ==
    {v \in 1..Len(parts) :
        \E n \in 1..Len(parts[v]) :
            /\ HasPitch(parts[v][n]) /\ Sounds(parts[v][n], tau)
            /\ parts[v][n].ps % 12 = ScaleDegreeName(k, 7)[2]}

(* the leading tone sounds in 2 or more voices at one time of measure m *)
DoubledIn(parts, k, m) ==
    \E tau \in ((m - 1) * TicksPerMeasure)..(m * TicksPerMeasure - 1) :
        Cardinality(LeadingVoicesAt(parts, k, tau)) >= 2

DoubledFindings(errs, m) ==
    Cardinality({n \in 1..Len(errs) :
                    /\ errs[n].type = "Doubled Leading Tone"
                    /\ errs[n].severity = "high"
                    /\ errs[n].measure = m})

(* C22: after an analysis with a detected key, every measure has one high  *)
(* 'Doubled Leading Tone' finding if the pitch class of degree 7 of the    *)
(* key sounds in 2 or more voices at the same time within the measure,     *)
(* and none otherwise.                                                     *)
C22_DoubledLeadingTone ==
    (op = "analyze" /\ outcome = "ok" /\ key # NoKey) =>
        \A m \in Measures :
            DoubledFindings(errors, m)
                = IF DoubledIn(score.parts, key, m) THEN 1 ELSE 0

(* what the analysis does: the check fails at its first measure and leaves *)
(* no finding                                                              *)
C22_LeadingToneCheckFails ==
    (op = "analyze" /\ outcome = "ok" /\ key # NoKey) =>
        /\ FindingsOfType(errors, "Doubled Leading Tone") = 0
        /\ "check_doubled_leading_tone" \in failed

(* a score in C major in which two voices sound B at the same time was     *)
(* analyzed and has no 'Doubled Leading Tone' finding                      *)
C22_Witness ==
    /\ op = "analyze" /\ outcome = "ok" /\ key = CMajor
    /\ DoubledIn(score.parts, key, 1)
    /\ FindingsOfType(errors, "Doubled Leading Tone") = 0

(***************************************************************************)
(* Scores of two voices in the same rhythm, the lower one repeating C4:    *)
(* the upper one takes every line of at most MaxRepeats notes over G4 and  *)
(* A4 in eighths, quarters or halves throughout, or alternates G4 and A4   *)
(* for at most MaxChanges notes, each an eighth, a quarter or a half.      *)
(***************************************************************************)
MaxRepeats == 7
MaxChanges == 6

Eighth == TicksPerQuarter \div 2
Half == 2 * TicksPerQuarter

NoteValues == {Eighth, TicksPerQuarter, Half}

(* the notes of the pitches, one after the other, with the durations *)
Timed(pitches, durs) ==
    [k \in 1..Len(pitches) |->
        [kind |-> "note", ps |-> pitches[k].ps, dn |-> pitches[k].dn,
         t |-> SumSeq(SubSeq(durs, 1, k - 1)), d |-> durs[k]]]

(* two voices in the rhythm durs, the upper one with the pitches *)
InRhythm(pitches, durs) ==
    <<Timed(pitches, durs), Timed([k \in 1..Len(durs) |-> PitchC4], durs)>>

RepeatedScores ==
    {InRhythm(pitches, [k \in 1..Len(pitches) |-> d]) :
        <<pitches, d>> \in
            (UNION {[1..n -> {PitchG4, PitchA4}] : n \in 1..MaxRepeats})
                \X NoteValues}

ChangingScores ==
    {InRhythm([k \in 1..Len(durs) |-> IF k % 2 = 1 THEN PitchG4 ELSE PitchA4],
              durs) :
        durs \in UNION {[1..n -> NoteValues] : n \in 1..MaxChanges}}

RhythmFiles ==
    {File(TRUE, parts, FALSE, CMajor) :
        parts \in RepeatedScores \cup ChangingScores}

InitRhythm == \E f \in RhythmFiles : Loaded(f)

SpecRhythm == InitRhythm /\ [][NextLoaded]_vars

RhythmMeasures == 1..(((MaxRepeats * Half) \div TicksPerMeasure) + 1)

(* the 'Harmonic Rhythm' findings of one description in measure m *)
RhythmFindings(errs, description, m) ==
    Cardinality({n \in 1..Len(errs) :
                    /\ errs[n].type = "Harmonic Rhythm"
                    /\ errs[n].severity = "low"
                    /\ errs[n].description = description
                    /\ errs[n].measure = m})

(* the first of the reduced chords before chords[n] from which on every    *)
(* chord up to chords[n] has the same pitches                              *)
HarmonyStart(chords, n) ==
    CHOOSE j \in 1..n :
        /\ \A i \in j..n : chords[i].pitches = chords[n].pitches
        /\ j > 1 => chords[j - 1].pitches # chords[n].pitches

(* the reduced chords of measure m that repeat the chord before them after *)
(* the harmony has sounded for more than 4 quarters                        *)
StaticIn(chords, m) ==
    {n \in 2..Len(chords) :
        /\ MeasureNumber(chords[n]) = m
        /\ chords[n - 1].pitches = chords[n].pitches
        /\ chords[n].t - chords[HarmonyStart(chords, n)].t
               > 4 * TicksPerQuarter}

(* C23: after an analysis, the low static-harmony findings of a measure    *)
(* are one for each reduced chord of the measure that has the pitches of   *)
(* the chord before it while that harmony, counted from the chord at which *)
(* the pitches last changed, has been sounding for more than 4 quarters.   *)
C23_StaticHarmony ==
    (op = "analyze" /\ outcome = "ok") =>
        \A m \in RhythmMeasures :
            RhythmFindings(errors, "Static harmony for too long", m)
                = Cardinality(StaticIn(Chordify(score), m))

(* the reduced chords of measure m that are the sixth or a later one of    *)
(* the same pitches in a row                                               *)
SixthIn(chords, m) ==
    {n \in 2..Len(chords) :
        /\ MeasureNumber(chords[n]) = m
        /\ n - HarmonyStart(chords, n) > 4}

(* what the analysis does find: every sixth or later chord of the same     *)
(* pitches in a row, whatever the lengths of the chords                    *)
C23_SixthRepetition ==
    (op = "analyze" /\ outcome = "ok") =>
        \A m \in RhythmMeasures :
            RhythmFindings(errors, "Static harmony for too long", m)
                = Cardinality(SixthIn(Chordify(score), m))

(* every note of the score is a quarter *)
InQuarters(s) ==
    \A e \in AllEvents(s.parts) : e.d = TicksPerQuarter

(* for chords of a quarter each the findings are the claimed ones *)
C23_InQuarters ==
    (op = "analyze" /\ outcome = "ok" /\ InQuarters(score)) =>
        \A m \in RhythmMeasures :
            RhythmFindings(errors, "Static harmony for too long", m)
                = Cardinality(StaticIn(Chordify(score), m))

(* four equal chords of a half note each were analyzed: the harmony sounds *)
(* for 8 quarters and there is no static-harmony finding                   *)
C23_Witness ==
    /\ op = "analyze" /\ outcome = "ok"
    /\ Len(Chordify(score)) = 4
    /\ \A n \in 1..4 : score.parts[1][n].d = Half
    /\ HarmonyStart(Chordify(score), 4) = 1
    /\ \A m \in RhythmMeasures :
           RhythmFindings(errors, "Static harmony for too long", m) = 0

(* six equal chords of an eighth each were analyzed: the harmony sounds    *)
(* for 3 quarters and there is a static-harmony finding                    *)
C23_EighthsWitness ==
    /\ op = "analyze" /\ outcome = "ok"
    /\ Len(Chordify(score)) = 6
    /\ \A n \in 1..6 : score.parts[1][n].d = Eighth
    /\ HarmonyStart(Chordify(score), 6) = 1
    /\ \E m \in RhythmMeasures :
           RhythmFindings(errors, "Static harmony for too long", m) = 1

(* six equal chords of a quarter each after a different one were analyzed: *)
(* one finding, at the last chord                                          *)
C23_QuartersWitness ==
    /\ op = "analyze" /\ outcome = "ok"
    /\ Len(Chordify(score)) = 7
    /\ \A n \in 1..7 : score.parts[1][n].d = TicksPerQuarter
    /\ HarmonyStart(Chordify(score), 7) = 2
    /\ RhythmFindings(errors, "Static harmony for too long",
                      MeasureNumber(Chordify(score)[7])) = 1

(* the time from the reduced chord before chords[n] to chords[n] *)
Elapsed(chords, n) == chords[n].t - chords[n - 1].t

(* the same as the difference of the offsets within their measures *)
OffsetDifference(chords, n) ==
    OffsetInMeasure(chords[n]) - OffsetInMeasure(chords[n - 1])

(* the first of the chords from which on every chord up to chords[n] came  *)
(* less than a quarter after the chord before it, n + 1 if chords[n] did   *)
(* not                                                                     *)
RapidStart(chords, n, distance(_, _)) ==
    CHOOSE j \in 2..(n + 1) :
        /\ \A i \in j..n : distance(chords, i) < TicksPerQuarter
        /\ j > 2 => distance(chords, j - 1) >= TicksPerQuarter

(* the reduced chords of measure m that end more than 3 such changes in a  *)
(* row                                                                     *)
RapidIn(chords, m, distance(_, _)) ==
    {n \in 2..Len(chords) :
        /\ MeasureNumber(chords[n]) = m
        /\ (n + 1) - RapidStart(chords, n, distance) > 3}

(* C24: after an analysis, the low rapid-harmonic-rhythm findings of a     *)
(* measure are one for each reduced chord of the measure that ends more    *)
(* than 3 chord changes in a row which each came less than a quarter,      *)
(* in elapsed time, after the chord before; a change a quarter or more     *)
(* after the chord before starts the count again.                          *)
C24_RapidHarmonicRhythm ==
    (op = "analyze" /\ outcome = "ok") =>
        \A m \in RhythmMeasures :
            RhythmFindings(errors, "Too many rapid chord changes", m)
                = Cardinality(RapidIn(Chordify(score), m, Elapsed))

(* what the analysis does find: the same with the distance of two chords   *)
(* taken as the difference of their offsets within their measures          *)
C24_ByOffsetInMeasure ==
    (op = "analyze" /\ outcome = "ok") =>
        \A m \in RhythmMeasures :
            RhythmFindings(errors, "Too many rapid chord changes", m)
                = Cardinality(RapidIn(Chordify(score), m, OffsetDifference))

(* five chords of a half note each, every one different from the one       *)
(* before it, were analyzed and have a rapid-harmonic-rhythm finding       *)
C24_Witness ==
    /\ op = "analyze" /\ outcome = "ok"
    /\ Len(Chordify(score)) = 5
    /\ \A n \in 1..5 : score.parts[1][n].d = Half
    /\ \A n \in 2..5 : Chordify(score)[n].pitches # Chordify(score)[n - 1].pitches
    /\ RhythmFindings(errors, "Too many rapid chord changes",
                      MeasureNumber(Chordify(score)[5])) = 1

(* five different chords of an eighth each were analyzed: one finding, at  *)
(* the fifth                                                               *)
C24_EighthsWitness ==
    /\ op = "analyze" /\ outcome = "ok"
    /\ Len(Chordify(score)) = 5
    /\ \A n \in 1..5 : score.parts[1][n].d = Eighth
    /\ \A n \in 2..5 : Chordify(score)[n].pitches # Chordify(score)[n - 1].pitches
    /\ RhythmFindings(errors, "Too many rapid chord changes",
                      MeasureNumber(Chordify(score)[5])) = 1
    /\ FindingsOfType(errors, "Harmonic Rhythm") = 1

(* the voices that sound at the time tau *)
VoicesAt(parts, tau) ==
    {v \in 1..Len(parts) : \E n \in 1..Len(parts[v]) : Sounds(parts[v][n], tau)}

PitchClasses(c) == {c.pitches[n].ps % 12 : n \in 1..Len(c.pitches)}

(* the reduced chords of measure m with fewer than 3 pitch classes while   *)
(* 3 or more voices sound                                                  *)
IncompleteIn(parts, chords, m) ==
    {n \in 1..Len(chords) :
        /\ MeasureNumber(chords[n]) = m
        /\ Cardinality(VoicesAt(parts, chords[n].t)) >= 3
        /\ Cardinality(PitchClasses(chords[n])) < 3}

IncompleteFindings(errs, m) ==
    Cardinality({n \in 1..Len(errs) :
                    /\ errs[n].type = "Incomplete Chord"
                    /\ errs[n].severity = "low"
                    /\ errs[n].measure = m})

(* C25: after an analysis, every reduced chord that has fewer than 3       *)
(* distinct pitch classes while 3 or more voices sound has a low           *)
(* 'Incomplete Chord' finding in the returned list.                        *)
C25_IncompleteChord ==
    (op = "analyze" /\ outcome = "ok") =>
        /\ ret = errors
        /\ \A m \in Measures :
               IncompleteFindings(errors, m)
                   >= Cardinality(IncompleteIn(score.parts,
                                               Chordify(score), m))

(* what the analysis does: no check produces a finding of this type *)
C25_NoIncompleteFinding ==
    FindingsOfType(errors, "Incomplete Chord") = 0

(* three voices sounding C3, G3 and G4 together were analyzed and have no  *)
(* 'Incomplete Chord' finding                                              *)
C25_Witness ==
    /\ op = "analyze" /\ outcome = "ok"
    /\ Len(score.parts) = 3
    /\ 1 \in IncompleteIn(score.parts, Chordify(score), 1)
    /\ PitchClasses(Chordify(score)[1]) = {0, 7}
    /\ ran = Analyzers
    /\ FindingsOfType(errors, "Incomplete Chord") = 0

----------------------------------------------------------------------------
(***************************************************************************)
(* SessionManager (src/session_manager.py).  Every method body is a        *)
(* "with self.lock:" block: a thread takes the lock when it is free, runs  *)
(* the body, and releases the lock as it leaves the block with the value   *)
(* of its return statement.  create_session is two steps under the lock,   *)
(* the eviction and the store.  Time is the value of datetime.now() in     *)
(* ticks; a uuid is the number of uuids generated before it, plus one; the *)
(* analyzer given to the n-th create_session is the number n.              *)
(***************************************************************************)
max_sessions == 2
session_timeout == 1
MaxTime == 2
MaxIds == 3

(* AnalysisSession(analyzer), stored under the key id *)
AnalysisSession(id, analyzer, now) ==
    [id |-> id, analyzer |-> analyzer, created_at |-> now,
     last_accessed |-> now]

Keys(sessions) == {sessions[n].id : n \in 1..Len(sessions)}

(* del self.sessions[key] *)
Delete(sessions, keys) ==
    SelectSeq(sessions, LAMBDA x : x.id \notin keys)

(* the lock is taken whether it is held or not *)
LockIgnored(m) == TRUE

(* with self.lock: the lock is free *)
LockFree(m) == m.lock = Unlocked

(* the key of the session that was accessed least recently *)
least_recently_accessed(sessions) ==
    sessions[CHOOSE n \in 1..Len(sessions) :
                \A k \in 1..Len(sessions) :
                    sessions[n].last_accessed <= sessions[k].last_accessed].id

(* next(iter(self.sessions)): the first key of the OrderedDict *)
oldest_key(sessions) == sessions[1].id

(* the thread t enters the with block of the method name called with a *)
Enter(m, t, name, a) ==
    [m EXCEPT !.lock = t, !.pc[t] = name, !.call[t] = <<name, a>>]

(* the thread t leaves the with block and returns v; returned is the last   *)
(* return of any thread                                                    *)
Leave(m, t, v) ==
    [m EXCEPT !.lock = Unlocked, !.pc[t] = "idle", !.call[t] = <<>>,
              !.returned = <<t, m.call[t][1], v>>]

(* create_session up to the eviction: the new session is held in call *)
create_session(m, t) ==
    LET session_id == m.ids + 1
        new_session == AnalysisSession(session_id, m.call[t][2], m.now)
    IN  [m EXCEPT !.ids = session_id,
                  !.sessions = IF Len(@) >= max_sessions
                               THEN Delete(@, {oldest_key(@)})
                               ELSE @,
                  !.pc[t] = "store",
                  !.call[t] = <<"create_session", m.call[t][2], new_session>>]

(* self.sessions[session_id] = session; return session_id *)
store_session(m, t) ==
    Leave([m EXCEPT !.sessions = Append(@, m.call[t][3])], t, m.call[t][3].id)

(* session.touch() *)
touch(sessions, session_id, now) ==
    [n \in 1..Len(sessions) |->
        IF sessions[n].id = session_id
        THEN [sessions[n] EXCEPT !.last_accessed = now]
        ELSE sessions[n]]

get_analyzer(m, t) ==
    LET session_id == m.call[t][2]
    IN  IF session_id \in Keys(m.sessions)
        THEN Leave([m EXCEPT !.sessions = touch(@, session_id, m.now)], t,
                   (CHOOSE x \in {m.sessions[n] : n \in 1..Len(m.sessions)} :
                        x.id = session_id).analyzer)
        ELSE Leave(m, t, None)

remove_session(m, t) ==
    Leave([m EXCEPT !.sessions = Delete(@, {m.call[t][2]})], t, None)

_cleanup_expired_sessions(m, t) ==
    LET expired == {m.sessions[n].id : n \in
                       {k \in 1..Len(m.sessions) :
                           m.now - m.sessions[k].last_accessed
                               > session_timeout}}
    IN  Leave([m EXCEPT !.sessions = Delete(@, expired)], t, None)

(* the other variables are those of the analyzer and of the web layer *)
Managed(m) ==
    /\ manager' = m
    /\ UNCHANGED <<analyzerVars, op, outcome, prior, report, batch, results,
                   session, uploads>>

CallCreateSession(t) ==
    /\ manager.pc[t] = "idle" /\ LockFree(manager)
    /\ manager.ids < MaxIds
    /\ Managed(Enter(manager, t, "create_session", manager.ids + 1))

CallGetAnalyzer(t, session_id) ==
    /\ manager.pc[t] = "idle" /\ LockFree(manager)
    /\ Managed(Enter(manager, t, "get_analyzer", session_id))

CallRemoveSession(t, session_id) ==
    /\ manager.pc[t] = "idle" /\ LockFree(manager)
    /\ Managed(Enter(manager, t, "remove_session", session_id))

CallCleanup ==
    /\ manager.pc[CleanupThread] = "idle" /\ LockFree(manager)
    /\ Managed(Enter(manager, CleanupThread, "_cleanup_expired_sessions",
                     None))

CreateSession(t) ==
    /\ manager.pc[t] = "create_session"
    /\ Managed(create_session(manager, t))

StoreSession(t) ==
    /\ manager.pc[t] = "store"
    /\ Managed(store_session(manager, t))

GetAnalyzer(t) ==
    /\ manager.pc[t] = "get_analyzer"
    /\ Managed(get_analyzer(manager, t))

RemoveSession(t) ==
    /\ manager.pc[t] = "remove_session"
    /\ Managed(remove_session(manager, t))

CleanupExpiredSessions ==
    /\ manager.pc[CleanupThread] = "_cleanup_expired_sessions"
    /\ Managed(_cleanup_expired_sessions(manager, CleanupThread))

(* time passes *)
Tick ==
    /\ manager.now < MaxTime
    /\ Managed([manager EXCEPT !.now = @ + 1])

NextSessions ==
    \/ \E t \in Users : CallCreateSession(t)
    \/ \E t \in Users : \E session_id \in 1..MaxIds :
           CallGetAnalyzer(t, session_id)
    \/ \E t \in Users : \E session_id \in 1..MaxIds :
           CallRemoveSession(t, session_id)
    \/ CallCleanup
    \/ \E t \in Users : CreateSession(t)
    \/ \E t \in Users : StoreSession(t)
    \/ \E t \in Users : GetAnalyzer(t)
    \/ \E t \in Users : RemoveSession(t)
    \/ CleanupExpiredSessions
    \/ Tick

SpecSessions == Init /\ [][NextSessions]_vars

(* the threads that are inside a with block of the manager *)
Inside == {t \in Threads : manager.pc[t] # "idle"}

(* at most one thread is inside a method body, and it holds the lock *)
OneAtATime ==
    /\ \A t1 \in Inside : \A t2 \in Inside : t1 = t2
    /\ \A t \in Inside : manager.lock = t
    /\ Inside = {} => manager.lock = Unlocked

(* the store changes only by a step of the thread that holds the lock *)
UnderLock ==
    manager'.sessions # manager.sessions =>
        /\ manager.lock \in Threads
        /\ manager.pc[manager.lock] # "idle"
        /\ \A t \in Threads \ {manager.lock} : manager'.pc[t] = manager.pc[t]

(* create_session returns the key of a session that is in the store *)
ReturnsStored ==
    \A t \in Users :
        (manager.pc[t] = "store" /\ manager'.pc[t] = "idle") =>
            /\ manager'.returned = <<t, "create_session", manager.ids>>
            /\ manager'.returned[3] \in Keys(manager'.sessions)

(* C26: under any interleaving of create_session, get_analyzer,            *)
(* remove_session and _cleanup_expired_sessions in different threads the   *)
(* store never holds more than max_sessions sessions, every method body    *)
(* runs under the lock with no other thread inside, and the id that        *)
(* create_session returns is in the store when it returns.                 *)
C26_SessionCapacity ==
    /\ [](Len(manager.sessions) <= max_sessions /\ OneAtATime)
    /\ [][UnderLock /\ ReturnsStored]_vars

(* C26 witness: at capacity, more sessions were created than fit, the last *)
(* return is that of a create_session whose id is stored, while the        *)
(* cleanup thread is inside its method and a user waits for the lock.      *)
C26_Witness ==
    /\ Len(manager.sessions) = max_sessions
    /\ manager.ids > max_sessions
    /\ Len(manager.returned) = 3
    /\ manager.returned[2] = "create_session"
    /\ manager.returned[3] \in Keys(manager.sessions)
    /\ manager.pc[CleanupThread] = "_cleanup_expired_sessions"
    /\ manager.now > 0

(* the step of create_session that evicts, taken by the thread t *)
Evicts(t) ==
    /\ manager.pc[t] = "create_session"
    /\ manager'.pc[t] = "store"

(* the stored session that was created earliest: ids are given in the      *)
(* order of creation                                                       *)
EarliestCreated(sessions) ==
    CHOOSE x \in {sessions[n] : n \in 1..Len(sessions)} :
        \A k \in 1..Len(sessions) :
            /\ x.id <= sessions[k].id
            /\ x.created_at <= sessions[k].created_at

(* C27: at capacity create_session removes exactly one session, the one    *)
(* created earliest among those stored, however recently any session was   *)
(* accessed; the other sessions are left as they were; below capacity it   *)
(* removes nothing; get_analyzer changes last_accessed of the session it   *)
(* finds and neither the order nor anything else of the store.             *)
C27_EvictsEarliestCreated ==
    [][\A t \in Threads :
          /\ (Evicts(t) /\ Len(manager.sessions) >= max_sessions) =>
                manager'.sessions =
                    Delete(manager.sessions,
                           {EarliestCreated(manager.sessions).id})
                /\ Len(manager'.sessions) = Len(manager.sessions) - 1
          /\ (Evicts(t) /\ Len(manager.sessions) < max_sessions) =>
                manager'.sessions = manager.sessions
          /\ (manager.pc[t] = "get_analyzer" /\ manager'.pc[t] = "idle") =>
                /\ Len(manager'.sessions) = Len(manager.sessions)
                /\ \A n \in 1..Len(manager.sessions) :
                      manager'.sessions[n] =
                          [manager.sessions[n] EXCEPT !.last_accessed =
                              manager'.sessions[n].last_accessed]
                /\ \A n \in 1..Len(manager.sessions) :
                      manager'.sessions[n].last_accessed =
                          IF manager.sessions[n].id = manager.call[t][2]
                          THEN manager.now
                          ELSE manager.sessions[n].last_accessed]_vars

(* C27 witness: create_session has evicted at capacity; the session it     *)
(* removed is the one whose analyzer the last get_analyzer returned, and   *)
(* no session left in the store was ever accessed after its creation.      *)
C27_Witness ==
    \E t \in Users :
        /\ manager.pc[t] = "store"
        /\ Len(manager.sessions) = max_sessions - 1
        /\ Len(manager.returned) = 3
        /\ manager.returned[2] = "get_analyzer"
        /\ manager.returned[3] # None
        /\ manager.returned[3] \notin Keys(manager.sessions)
        /\ manager.now > 0
        /\ \A n \in 1..Len(manager.sessions) :
              manager.sessions[n].last_accessed
                  = manager.sessions[n].created_at

(* C27 witness: create_session is about to evict at capacity and the       *)
(* earliest created session is the one accessed most recently.             *)
C27_TouchedOldestWitness ==
    \E t \in Users :
        /\ manager.pc[t] = "create_session"
        /\ Len(manager.sessions) = max_sessions
        /\ \A n \in 2..Len(manager.sessions) :
              manager.sessions[1].last_accessed
                  > manager.sessions[n].last_accessed

----------------------------------------------------------------------------
(* the files of the batch that analyze_file saved to the upload folder *)
SavedIn(files) ==
    {n \in 1..Len(files) :
        allowed_file(files[n].filename) /\ files[n].content.typeok}

(* the last file of the batch saved under the filename *)
LastSaved(files, filename) ==
    files[Largest({n \in SavedIn(files) : files[n].filename = filename})]

(* C28: after analyze_file has run for a file it saved, on any exit path,  *)
(* the saved file is no longer in the upload folder, whether it is a       *)
(* MusicXML or a MIDI upload.                                              *)
C28_UploadRemoved ==
    op = "index" =>
        \A n \in SavedIn(batch) : ~Exists(uploads, batch[n].filename)

(* C28 as the code has it: the saved file is left in the upload folder     *)
(* exactly when it is a MIDI file that was converted.                      *)
C28_RemovedUnlessConverted ==
    op = "index" =>
        \A n \in SavedIn(batch) :
            Exists(uploads, batch[n].filename) <=>
                /\ IsMidi(batch[n].filename)
                /\ LastSaved(batch, batch[n].filename).content.converts

(* C28 witness: a MIDI upload was converted and analyzed, its result is    *)
(* returned, and the uploaded file is still in the folder while the        *)
(* converted MusicXML is not.                                              *)
C28_Witness ==
    /\ op = "index"
    /\ \E n \in SavedIn(batch) :
          /\ IsMidi(batch[n].filename)
          /\ batch[n].content.converts
          /\ Exists(uploads, batch[n].filename)
          /\ ~Exists(uploads, <<batch[n].filename[1], "musicxml">>)
          /\ \E k \in 1..Len(results) :
                results[k].midi /\ results[k].filename = batch[n].filename

(* C28 witness: MusicXML uploads that were analyzed, failed validation,    *)
(* failed to load or failed in the analysis are all gone.                  *)
C28_MusicXMLWitness ==
    /\ op = "index"
    /\ Len(batch) = MaxFiles
    /\ SavedIn(batch) = 1..Len(batch)
    /\ Len(results) = 1
    /\ \A n \in 1..Len(batch) :
          ~IsMidi(batch[n].filename) /\ ~Exists(uploads, batch[n].filename)
    /\ \E n \in 1..Len(batch) : ~batch[n].content.wellformed

----------------------------------------------------------------------------
(* session['last_analysis'] as analyze_file stores it for the result res *)
LastAnalysisOf(res) ==
    [stored |-> TRUE, errors |-> res.results,
     statistics |->
         [measures_analyzed |-> res.report.statistics.measures_analyzed,
          key |-> res.report.statistics.key,
          total_voices |-> res.report.statistics.total_voices,
          midi_info |-> res.midi]]

(* C29: after a batch the session's 'last_analysis' holds the errors and   *)
(* statistics of the last file of the batch that was analyzed              *)
(* successfully, and of no earlier one; files that fail, after it or when  *)
(* none succeeds, leave it as it was.                                      *)
C29_LastAnalysis ==
    [][/\ results' # <<>> =>
             session' = LastAnalysisOf(results'[Len(results')])
       /\ results' = <<>> => session' = session]_vars

(* C29 witness: the first file of the batch was analyzed, the second was   *)
(* saved and failed, and the session holds the analysis of the first.      *)
C29_Witness ==
    /\ op = "index"
    /\ Len(batch) = 2
    /\ SavedIn(batch) = {1, 2}
    /\ Len(results) = 1
    /\ results[1].filename = batch[1].filename
    /\ batch[2].filename # batch[1].filename
    /\ session = LastAnalysisOf(results[1])
    /\ session.errors # <<>>

(* C29 witness: two files were analyzed with different findings and the    *)
(* session holds those of the second only.                                 *)
C29_OverwrittenWitness ==
    /\ op = "index"
    /\ Len(results) = 2
    /\ results[1].results # results[2].results
    /\ session.errors = results[2].results
    /\ session.statistics.midi_info # results[1].midi

----------------------------------------------------------------------------
(* findings n and n+1 are 'Melodic Interval' findings of the voice v in    *)
(* the measure m, the first high and the second medium                     *)
HighThenMedium(errs, n, v, m) ==
    /\ n + 1 <= Len(errs)
    /\ \A j \in {n, n + 1} :
          /\ errs[j].type = "Melodic Interval"
          /\ errs[j].voice1 = v
          /\ errs[j].measure = m
    /\ errs[n].severity = "high"
    /\ errs[n + 1].severity = "medium"

(* the pairs of consecutive notes of the line an augmented 4th apart *)
AugmentedFourthsIn(line) ==
    {k \in 1..Len(line) : PairAt(line, k) /\ NameAt(line, k) = A4}

(* C30: after an analysis, every pair of consecutive notes of a voice an   *)
(* augmented 4th apart has two 'Melodic Interval' findings, next to each   *)
(* other in the list, for its voice and the measure of its first note:     *)
(* the first of severity high, the second of severity medium.              *)
C30_AugmentedFourthTwice ==
    (op = "analyze" /\ outcome = "ok") =>
        \A v \in 1..Len(score.parts) :
            \A k \in AugmentedFourthsIn(score.parts[v]) :
                \E n \in 1..Len(errors) :
                    HighThenMedium(errors, n, v,
                                   MeasureNumber(score.parts[v][k]))

(* C30 witness: a voice with an augmented 4th was analyzed, the check of   *)
(* the melodic intervals ran and caught an exception, and no two findings  *)
(* of the list are a high and a medium 'Melodic Interval' of that voice.   *)
C30_Witness ==
    /\ op = "analyze" /\ outcome = "ok"
    /\ "check_melodic_intervals" \in failed
    /\ \E v \in 1..Len(score.parts) :
          /\ AugmentedFourthsIn(score.parts[v]) # {}
          /\ \A n \in 1..Len(errors) : \A m \in MelodyMeasures :
                ~HighThenMedium(errors, n, v, m)

====
